---- MODULE Spec2Model ----
(***************************************************************************)
(* Harpeth Hills price book generator (pricebook_generator.py): the        *)
(* pricing rules, the companion-price fill of the bootstrap step, the      *)
(* adjacent-pair count and the availability buckets.                       *)
(*                                                                         *)
(* Numbers.  The Python code computes prices and sold fractions in IEEE    *)
(* binary64.  Here a non-integer quantity is an exact rational <<n, d>>    *)
(* (d > 0).  On the domain of this model (prices below 3 000 000, bucket   *)
(* sizes below 3 000) the binary64 evaluation of every comparison and of   *)
(* every ceil() below gives the same integer or boolean as the exact       *)
(* rational evaluation (established by exhaustive evaluation of the        *)
(* Python expressions), so the rationals are the values the code sees.     *)
(***************************************************************************)
EXTENDS Integers, Sequences, FiniteSets, TLC

VARIABLES
    pc,                 \* position: the call or the step that has been made
    arg,                \* integer argument: x, or base_price_locked
    sold_pct,           \* sold fraction argument, a rational <<n, d>>
    ret,                \* the value returned by the applied function
    nums,               \* argument of count_adjacent_pairs
    pairs,              \* its result
    all_rows,           \* bootstrap: records parsed from the master listing
    library_exists,     \* PRICE_LIBRARY_XLSX.exists()
    lib,                \* the Price_Library sheet of price_library.xlsx
    facts_xlsm,         \* the data rows of the FaCTS export FACTS_XLSM
    facts,              \* publish: facts = load_facts()
    inv,                \* the rows list of the bucket function that is running
    mv,                 \* mv_buckets(facts)
    b7,                 \* building_buckets_simple_by_row(facts, ...Bldg 7, ...)
    b8,                 \* building_buckets_simple_by_row(facts, ...Bldg 8, ...)
    bt,                 \* building_buckets_simple_by_row(facts, Bell Tower, ...)
    headers,            \* the column headers of the FaCTS export
    raised,             \* message of the exception that ended the last command
    out_wb,             \* publish: the data rows of the workbook out_wb
    output_exists,      \* OUTPUT_XLSX.exists()
    output_xlsx,        \* the data rows of OUTPUT_XLSX
    published,          \* history: inputs and output of the publish runs made
    runs,               \* number of commands run
    cmd,                \* CLI: the command, sys.argv[1]
    script,             \* the inventory-update script that is running
    df_inv,             \* df_inv: the records of the inventory file
    col_map,            \* update_v32: col_map = identify_columns(df_inv)
    master,             \* the sheet of the master price book, as loaded
    ws,                 \* the rows of the sheet, as updated so far
    r_idx,              \* the row of the sheet that is processed next
    last_count,         \* count of the last row: count_row_availability(...)
    new_pct,            \* new_pct of the last row: calculate_percent_sold(...)
    saved               \* the rows of the output file, <<>> before the save

pricingVars == <<arg, sold_pct, ret>>
pairVars == <<nums, pairs>>
bootstrapVars == <<all_rows, library_exists, lib>>
bucketVars == <<facts_xlsm, facts, inv, mv, b7, b8, bt>>

publishVars ==
    <<headers, raised, out_wb, output_exists, output_xlsx, published, runs,
      cmd>>

inventoryVars ==
    <<script, df_inv, col_map, master, ws, r_idx, last_count, new_pct, saved>>

vars ==
    <<pc, pricingVars, pairVars, bootstrapVars, bucketVars, publishVars,
      inventoryVars>>

\* the empty value of a cell or of a result: None
CellNone == <<"None", "">>

\* no inventory-update script has been started
IdleInventory ==
    /\ script = ""
    /\ df_inv = <<>>
    /\ col_map = <<>>
    /\ master = <<>>
    /\ ws = <<>>
    /\ r_idx = 0
    /\ last_count = CellNone
    /\ new_pct = CellNone
    /\ saved = <<>>

\* a missing object value (None); a missing number (NaN, None) is NaN
None == "None"
NaN == -1

----------------------------------------------------------------------------
(* Exact rationals <<n, d>> with d > 0.                                    *)

Rat(n, d) == <<n, d>>
RInt(n) == <<n, 1>>
RAdd(a, b) == <<a[1] * b[2] + b[1] * a[2], a[2] * b[2]>>
RSub(a, b) == <<a[1] * b[2] - b[1] * a[2], a[2] * b[2]>>
RMul(a, b) == <<a[1] * b[1], a[2] * b[2]>>
RGeq(a, b) == a[1] * b[2] >= b[1] * a[2]
RLeq(a, b) == RGeq(b, a)
RLt(a, b) == ~RGeq(a, b)
REq(a, b) == a[1] * b[2] = b[1] * a[2]

\* math.ceil(n / d) for d > 0
Ceil(n, d) == -((-n) \div d)

----------------------------------------------------------------------------
(* PRICING RULES                                                           *)

ROUND_TO == 995
DEFAULT_INCREASE_PCT == Rat(5, 100)
TIER1_SOLD == Rat(90, 100)
TIER1_UPLIFT == Rat(15, 100)
TIER2_SOLD == Rat(97, 100)
TIER2_UPLIFT == Rat(20, 100)
COMPANION_DISCOUNT == Rat(20, 100)

\* the rounding without the test x <= 0
round_up_to_unguarded(x, base) == Ceil(x[1], x[2] * base) * base

\* a rounding that always moves to the next multiple, also from a multiple
round_up_to_bump(x, base) ==
    IF x[1] <= 0 THEN 0 ELSE ((x[1] \div (x[2] * base)) + 1) * base

\* round_up_to(x, base): int(math.ceil(x / base) * base), 0 for x <= 0
round_up_to(x, base) ==
    IF x[1] <= 0 THEN 0 ELSE Ceil(x[1], x[2] * base) * base

\* the rounding without the +5 shift
round_up_end995_noshift(x) == Ceil(x[1], 1000 * x[2]) * 1000 - 5

\* round_up_end995(x): int(math.ceil((x + 5) / 1000.0) * 1000 - 5)
round_up_end995(x) ==
    LET y == RAdd(x, RInt(5)) IN Ceil(y[1], 1000 * y[2]) * 1000 - 5

\* the tiers with a strict comparison
scarcity_uplift_strict(s) ==
    IF RGeq(s, TIER2_SOLD) /\ ~REq(s, TIER2_SOLD) THEN TIER2_UPLIFT
    ELSE IF RGeq(s, TIER1_SOLD) /\ ~REq(s, TIER1_SOLD) THEN TIER1_UPLIFT
    ELSE RInt(0)

\* the tiers tested bottom-up
scarcity_uplift_swapped(s) ==
    IF RGeq(s, TIER1_SOLD) THEN TIER1_UPLIFT
    ELSE IF RGeq(s, TIER2_SOLD) THEN TIER2_UPLIFT
    ELSE RInt(0)

scarcity_uplift(s) ==
    IF RGeq(s, TIER2_SOLD) THEN TIER2_UPLIFT
    ELSE IF RGeq(s, TIER1_SOLD) THEN TIER1_UPLIFT
    ELSE RInt(0)

\* the price with the rounding pass applied in every tier
final_price_from_base_always_round(b, s) ==
    round_up_to(RMul(RInt(b), RAdd(RInt(1), scarcity_uplift(s))), ROUND_TO)

\* the price rounded to a multiple of 995 below the marked-up value
final_price_from_base_floor(b, s) ==
    LET u == scarcity_uplift(s)
        x == RMul(RInt(b), RAdd(RInt(1), u))
    IN  IF RLeq(u, RInt(0)) THEN b
        ELSE (x[1] \div (x[2] * ROUND_TO)) * ROUND_TO

\* the price with the larger uplift in the lower tier
final_price_from_base_tiers_swapped(b, s) ==
    LET u == scarcity_uplift(s) IN
    IF RLeq(u, RInt(0)) THEN b
    ELSE round_up_to(RMul(RInt(b), RAdd(RInt(1),
             IF REq(u, TIER1_UPLIFT) THEN TIER2_UPLIFT ELSE TIER1_UPLIFT)),
             ROUND_TO)

final_price_from_base(b, s) ==
    LET u == scarcity_uplift(s) IN
    IF RLeq(u, RInt(0)) THEN b
    ELSE round_up_to(RMul(RInt(b), RAdd(RInt(1), u)), ROUND_TO)

----------------------------------------------------------------------------
(* The pricing layer applied to arguments drawn from bounded sets.         *)

MaxSmall == 12
MaxMult == 6
MaxDen == 10

\* integer arguments: small values, the neighbours of the multiples of 995
\* and of 1000, the prices the documentation names, and negative prices
PriceArgs ==
    (-1 .. MaxSmall)
    \cup {k * 995 + d : k \in 1..MaxMult, d \in {-1, 0, 1}}
    \cup {k * 1000 + d : k \in 1..MaxMult, d \in {-6, -5, -4, 0, 1}}
    \cup {10000, 19900}
    \cup {-1000, -995}

\* sold fractions n/d in [0, 1]
SoldFractions ==
    {Rat(n, d) : n \in 0..100, d \in (1..MaxDen) \cup {100}} \cap
    {f \in (0..100) \X (1..100) : f[1] <= f[2]}

IdlePairs == nums = <<>> /\ pairs = 0
IdleBootstrap == all_rows = <<>> /\ library_exists = FALSE /\ lib = <<>>
NoBuckets ==
    facts = <<>> /\ inv = <<>> /\ mv = <<>> /\ b7 = <<>> /\ b8 = <<>> /\ bt = <<>>
IdleBuckets == facts_xlsm = <<>> /\ NoBuckets

\* required_columns of load_facts
required_columns == {"Location", "Section", "Status", "Space", "Sales Item"}

\* an export with every required column, no command run, no output
IdlePublish ==
    /\ headers = required_columns
    /\ raised = ""
    /\ out_wb = <<>>
    /\ output_exists = FALSE
    /\ output_xlsx = <<>>
    /\ published = {}
    /\ runs = 0
    /\ cmd = ""

InitPricing ==
    /\ pc = "args"
    /\ arg \in PriceArgs
    /\ sold_pct \in SoldFractions
    /\ ret = 0
    /\ IdlePairs /\ IdleBootstrap /\ IdleBuckets /\ IdlePublish
    /\ IdleInventory

Call_final_price_from_base ==
    /\ pc = "args"
    /\ pc' = "final_price_from_base"
    /\ ret' = final_price_from_base(arg, sold_pct)
    /\ UNCHANGED <<arg, sold_pct, pairVars, bootstrapVars, bucketVars, publishVars>>
    /\ UNCHANGED inventoryVars

Call_scarcity_uplift ==
    /\ pc = "args"
    /\ pc' = "scarcity_uplift"
    /\ ret' = scarcity_uplift(sold_pct)
    /\ UNCHANGED <<arg, sold_pct, pairVars, bootstrapVars, bucketVars, publishVars>>
    /\ UNCHANGED inventoryVars

Call_round_up_to ==
    /\ pc = "args"
    /\ pc' = "round_up_to"
    /\ ret' = round_up_to(RInt(arg), ROUND_TO)
    /\ UNCHANGED <<arg, sold_pct, pairVars, bootstrapVars, bucketVars, publishVars>>
    /\ UNCHANGED inventoryVars

Call_round_up_end995 ==
    /\ pc = "args"
    /\ pc' = "round_up_end995"
    /\ ret' = round_up_end995(RInt(arg))
    /\ UNCHANGED <<arg, sold_pct, pairVars, bootstrapVars, bucketVars, publishVars>>
    /\ UNCHANGED inventoryVars

NextPricing ==
    \/ Call_final_price_from_base
    \/ Call_scarcity_uplift
    \/ Call_round_up_to
    \/ Call_round_up_end995

SpecPricing == InitPricing /\ [][NextPricing]_vars

\* v is the smallest integer multiple of 995 that is >= b * pct / 100
SmallestMultipleOf995Geq(v, b, pct) ==
    /\ v % 995 = 0
    /\ v * 100 >= b * pct
    /\ (v - 995) * 100 < b * pct

\* C1: for a positive base price and a sold fraction f with 0 <= f < 0.90,
\* final_price_from_base returns the base price itself, with no rounding,
\* also when the base price is not a multiple of 995.
C1_BelowTier1Unchanged ==
    (/\ pc = "final_price_from_base"
     /\ arg > 0
     /\ sold_pct[1] >= 0
     /\ 100 * sold_pct[1] < 90 * sold_pct[2])
    => ret = arg

C1_Witness ==
    /\ pc = "final_price_from_base"
    /\ arg = 996
    /\ sold_pct = <<89, 100>>
    /\ ret = 996

\* C2: for a positive base price and 0.90 <= f < 0.97 (f = 0.90 included),
\* final_price_from_base returns the smallest multiple of 995 that is
\* >= base * 1.15.
C2_Tier1Price ==
    (/\ pc = "final_price_from_base"
     /\ arg > 0
     /\ 100 * sold_pct[1] >= 90 * sold_pct[2]
     /\ 100 * sold_pct[1] < 97 * sold_pct[2])
    => SmallestMultipleOf995Geq(ret, arg, 115)

C2_Witness ==
    /\ pc = "final_price_from_base"
    /\ arg = 1000
    /\ sold_pct = <<9, 10>>
    /\ ret = 1990

\* C3: for a positive base price and 0.97 <= f <= 1 (f = 0.97 included),
\* final_price_from_base returns the smallest multiple of 995 that is
\* >= base * 1.20: the 0.20 tier takes precedence over the 0.15 tier.
C3_Tier2Price ==
    (/\ pc = "final_price_from_base"
     /\ arg > 0
     /\ 100 * sold_pct[1] >= 97 * sold_pct[2]
     /\ sold_pct[1] <= sold_pct[2])
    => SmallestMultipleOf995Geq(ret, arg, 120)

C3_Witness ==
    /\ pc = "final_price_from_base"
    /\ arg = 1000
    /\ sold_pct = <<97, 100>>
    /\ ret = 1990

\* C4: final_price_from_base(10000, 0.95) is 11940 = 995 * 12.
C4_EndToEnd11940 ==
    (/\ pc = "final_price_from_base"
     /\ arg = 10000
     /\ 100 * sold_pct[1] = 95 * sold_pct[2])
    => ret = 11940

C4_Witness ==
    /\ pc = "final_price_from_base"
    /\ arg = 10000
    /\ sold_pct = <<95, 100>>
    /\ ret = 995 * 12

\* C5: round_up_to(k * 995, 995) = k * 995 for every k >= 1: an exact
\* multiple of 995 is a fixed point and is not bumped to the next multiple.
C5_MultiplesFixed ==
    (/\ pc = "round_up_to"
     /\ arg >= 995
     /\ arg % 995 = 0)
    => ret = arg

C5_Witness ==
    /\ pc = "round_up_to"
    /\ arg = 995
    /\ ret = 995

\* C6: for every integer x >= 0, round_up_end995(x) is the value v with
\* v mod 1000 = 995, v >= x and v - 1000 < x; an x ending in 995 is returned
\* unchanged and 996 gives 1995.
C6_End995 ==
    (pc = "round_up_end995" /\ arg >= 0)
    => /\ ret % 1000 = 995
       /\ ret >= arg
       /\ ret - 1000 < arg
       /\ (arg % 1000 = 995 => ret = arg)
       /\ (arg = 996 => ret = 1995)

C6_Witness ==
    /\ pc = "round_up_end995"
    /\ arg = 996
    /\ ret = 1995

----------------------------------------------------------------------------
(* count_adjacent_pairs                                                    *)

Range(s) == {s[i] : i \in 1..Len(s)}

\* sorted(S) for a finite set of integers
RECURSIVE Sorted(_)
Sorted(S) ==
    IF S = {} THEN <<>>
    ELSE LET m == CHOOSE a \in S : \A b \in S : a <= b
         IN  <<m>> \o Sorted(S \ {m})

\* the for loop of count_adjacent_pairs from position i on
RECURSIVE PairLoop(_, _, _, _)
PairLoop(sorted, i, used, count) ==
    IF i > Len(sorted) THEN count
    ELSE LET n == sorted[i] IN
         IF n \in used THEN PairLoop(sorted, i + 1, used, count)
         ELSE IF (n + 1) \in Range(sorted) /\ (n + 1) \notin used
              THEN PairLoop(sorted, i + 1, used \cup {n, n + 1}, count + 1)
              ELSE PairLoop(sorted, i + 1, used, count)

\* every n with n + 1 present counts, a consumed number is used again
count_adjacent_pairs_overlap(ns) ==
    Cardinality({n \in Range(ns) : (n + 1) \in Range(ns)})

count_adjacent_pairs(ns) == PairLoop(Sorted(Range(ns)), 1, {}, 0)

MaxLen == 4
MaxNum == 5

\* lists of unit numbers, unsorted and with repetitions
NumLists == UNION {[1..k -> 1..MaxNum] : k \in 0..MaxLen}

IdlePricing == arg = 0 /\ sold_pct = <<0, 1>> /\ ret = 0

InitPairs ==
    /\ pc = "args"
    /\ nums \in NumLists
    /\ pairs = 0
    /\ IdlePricing /\ IdleBootstrap /\ IdleBuckets /\ IdlePublish
    /\ IdleInventory

Call_count_adjacent_pairs ==
    /\ pc = "args"
    /\ pc' = "count_adjacent_pairs"
    /\ pairs' = count_adjacent_pairs(nums)
    /\ UNCHANGED <<nums, pricingVars, bootstrapVars, bucketVars, publishVars>>
    /\ UNCHANGED inventoryVars

NextPairs == Call_count_adjacent_pairs

SpecPairs == InitPairs /\ [][NextPairs]_vars

\* length of the maximal run of consecutive integers of S that starts at a
RECURSIVE RunLength(_, _)
RunLength(S, a) == IF a \in S THEN 1 + RunLength(S, a + 1) ELSE 0

\* sum of floor(run length / 2) over the runs that start at an element of T
RECURSIVE SumHalfRuns(_, _)
SumHalfRuns(S, T) ==
    IF T = {} THEN 0
    ELSE LET a == CHOOSE b \in T : TRUE
         IN  (RunLength(S, a) \div 2) + SumHalfRuns(S, T \ {a})

RunStarts(S) == {a \in S : (a - 1) \notin S}

\* C9: count_adjacent_pairs pairs left-greedily over the deduplicated sorted
\* numbers, never reusing a number: the result is the sum over the maximal
\* runs of consecutive integers of floor(run length / 2); [1,2,3] gives 1,
\* [1,2,3,4] gives 2, [1,3,5] gives 0 and [] gives 0.
C9_GreedyPairs ==
    pc = "count_adjacent_pairs"
    => /\ pairs = SumHalfRuns(Range(nums), RunStarts(Range(nums)))
       /\ (nums = <<1, 2, 3>> => pairs = 1)
       /\ (nums = <<1, 2, 3, 4>> => pairs = 2)
       /\ (nums = <<1, 3, 5>> => pairs = 0)
       /\ (nums = <<>> => pairs = 0)

C9_Witness ==
    /\ pc = "count_adjacent_pairs"
    /\ nums = <<3, 1, 2, 3>>
    /\ pairs = 1

----------------------------------------------------------------------------
(* PRICE LIBRARY bootstrap.  all_rows is the list of records parse_sheet   *)
(* extracts from the master listing; a missing number (None, NaN) is NaN.    *)

\* key = (product_family, group, theme)
Key(r) == <<r.product_family, r.group, r.theme>>

Max(S) == CHOOSE a \in S : \A b \in S : b <= a

\* single_map.get(key): the dict comprehension keeps the last Single row of
\* a key whose baseline crypt price is present
single_map_get(df, key) ==
    LET I == {i \in 1..Len(df) : /\ df[i].option = "Single"
                                 /\ df[i].baseline_2025_crypt # NaN
                                 /\ Key(df[i]) = key}
    IN  IF I = {} THEN NaN ELSE df[Max(I)].baseline_2025_crypt

single_front_map_get(df, key) ==
    LET I == {i \in 1..Len(df) : /\ df[i].option = "Single"
                                 /\ df[i].baseline_2025_front # NaN
                                 /\ Key(df[i]) = key}
    IN  IF I = {} THEN NaN ELSE df[Max(I)].baseline_2025_front

\* the derivation with the multiple-of-995 rounding in place of ...995
derive_companion_crypt_multiple(single_crypt) ==
    round_up_to(RMul(RMul(RInt(2), RInt(single_crypt)),
                     RSub(RInt(1), COMPANION_DISCOUNT)), ROUND_TO)

\* round_up_end995(2 * single_crypt * (1 - COMPANION_DISCOUNT))
derive_companion_crypt(single_crypt) ==
    round_up_end995(RMul(RMul(RInt(2), RInt(single_crypt)),
                         RSub(RInt(1), COMPANION_DISCOUNT)))

\* the fill that derives the price also when the row has one
companion_crypt_fill_override(df, r) ==
    LET single_crypt == single_map_get(df, Key(r)) IN
    IF single_crypt # NaN
    THEN derive_companion_crypt(single_crypt)
    ELSE r.baseline_2025_crypt

\* baseline_2025_crypt of a Companion row r after the fill loop
companion_crypt_fill(df, r) ==
    LET single_crypt == single_map_get(df, Key(r)) IN
    IF r.baseline_2025_crypt = NaN /\ single_crypt # NaN
    THEN derive_companion_crypt(single_crypt)
    ELSE r.baseline_2025_crypt

\* baseline_2025_front of a Companion row r after the fill loop
companion_front_fill(df, r) ==
    IF r.baseline_2025_front # NaN THEN r.baseline_2025_front
    ELSE IF r.companion_plaque # NaN THEN r.companion_plaque
    ELSE IF r.single_plaque # NaN THEN r.single_plaque * 2
    ELSE LET sf == single_front_map_get(df, Key(r)) IN
         IF sf # NaN THEN sf * 2 ELSE NaN

\* row r after the loop over df.iterrows()
fill_row(df, r) ==
    IF r.option # "Companion" THEN r
    ELSE [r EXCEPT !.baseline_2025_crypt = companion_crypt_fill(df, r),
                   !.baseline_2025_front = companion_front_fill(df, r)]

\* fill totals if missing
fill_total(r) ==
    IF /\ r.baseline_2025_total = NaN
       /\ r.baseline_2025_crypt # NaN
       /\ r.baseline_2025_front # NaN
    THEN [r EXCEPT !.baseline_2025_total =
                       r.baseline_2025_crypt + r.baseline_2025_front]
    ELSE r

\* a locked price rounded down to a multiple of 995
locked_floor(v) ==
    IF v = NaN THEN NaN
    ELSE ((v * 105) \div (100 * ROUND_TO)) * ROUND_TO

\* round_up_to(x * (1 + DEFAULT_INCREASE_PCT), ROUND_TO) if pd.notna(x) else None
locked(v) ==
    IF v = NaN THEN NaN
    ELSE round_up_to(RMul(RInt(v), RAdd(RInt(1), DEFAULT_INCREASE_PCT)), ROUND_TO)

\* the columns added to a row of the library
lock_row(r) ==
    [product_family |-> r.product_family, group |-> r.group,
     theme |-> r.theme, option |-> r.option,
     baseline_2025_crypt |-> r.baseline_2025_crypt,
     baseline_2025_front |-> r.baseline_2025_front,
     baseline_2025_total |-> r.baseline_2025_total,
     single_plaque |-> r.single_plaque,
     tandem_plaque |-> r.tandem_plaque,
     companion_plaque |-> r.companion_plaque,
     increase_pct |-> DEFAULT_INCREASE_PCT,
     base_price_locked_crypt |-> locked(r.baseline_2025_crypt),
     base_price_locked_front |-> locked(r.baseline_2025_front),
     base_price_locked_total |-> locked(r.baseline_2025_total)]

\* the Price_Library sheet written for the rows df
price_library(df) ==
    [i \in 1..Len(df) |-> lock_row(fill_total(fill_row(df, df[i])))]

MaxRows == 2

Families == {"Building 7 Mausoleum"}
\* (group, theme) labels of the master listing; a row above the first group
\* label has group None
GroupThemes == {<<"UNCOVERED", "D (Touch)">>, <<"UNCOVERED", "C (Eye)">>,
                <<None, "D (Touch)">>}
Options == {"Single", "Companion", "Tandem"}
BaselineCrypts == {NaN, 1000, 1247}
BaselineFronts == {NaN, 395}
BaselineTotals == {NaN}
\* plaque prices read from the header text of the sheet
Plaques == {[single_plaque |-> NaN, companion_plaque |-> NaN],
            [single_plaque |-> 400, companion_plaque |-> NaN],
            [single_plaque |-> 400, companion_plaque |-> 700]}

MasterRows(pl) ==
    {[product_family |-> f, group |-> gt[1], theme |-> gt[2], option |-> o,
      baseline_2025_crypt |-> c, baseline_2025_front |-> fr,
      baseline_2025_total |-> t,
      single_plaque |-> pl.single_plaque, tandem_plaque |-> NaN,
      companion_plaque |-> pl.companion_plaque] :
       f \in Families, gt \in GroupThemes, o \in Options,
       c \in BaselineCrypts, fr \in BaselineFronts, t \in BaselineTotals}

InitBootstrap ==
    /\ pc = "start"
    /\ \E pl \in Plaques :
           all_rows \in UNION {[1..k -> MasterRows(pl)] : k \in 0..MaxRows}
    /\ library_exists = FALSE
    /\ lib = <<>>
    /\ IdlePricing /\ IdlePairs /\ IdleBuckets /\ IdlePublish
    /\ IdleInventory

\* bootstrap_price_library(): returns at once when the library exists;
\* pd.DataFrame([]) has no "option" column, so an empty listing raises
\* KeyError before anything is written
bootstrap_price_library ==
    /\ pc \in {"start", "bootstrap"}
    /\ IF library_exists
       THEN pc' = "bootstrap" /\ UNCHANGED <<library_exists, lib>>
       ELSE IF all_rows = <<>>
            THEN pc' = "KeyError" /\ UNCHANGED <<library_exists, lib>>
            ELSE /\ pc' = "bootstrap"
                 /\ library_exists' = TRUE
                 /\ lib' = price_library(all_rows)
    /\ UNCHANGED <<all_rows, pricingVars, pairVars, bucketVars, publishVars>>
    /\ UNCHANGED inventoryVars

NextBootstrap == bootstrap_price_library

SpecBootstrap == InitBootstrap /\ [][NextBootstrap]_vars

\* v is the smallest integer ending in 995 that is >= 1.6 * s
SmallestEnd995Geq16(v, s) ==
    /\ v % 1000 = 995
    /\ 10 * v >= 16 * s
    /\ 10 * (v - 1000) < 16 * s

\* the rows of the master listing that are Single rows of the key of row i
\* and carry a baseline crypt price
SinglesOf(i) ==
    {j \in 1..Len(all_rows) :
        /\ all_rows[j].option = "Single"
        /\ all_rows[j].baseline_2025_crypt # NaN
        /\ all_rows[j].product_family = all_rows[i].product_family
        /\ all_rows[j].group = all_rows[i].group
        /\ all_rows[j].theme = all_rows[i].theme}

\* C7: the companion crypt price derived from a single price s is the
\* smallest value ending in 995 that is >= 1.6 * s (two singles at 20% off);
\* for s = 1000 it is 1995.
C7_CompanionDerived ==
    (pc = "bootstrap" /\ library_exists)
    => \A i \in 1..Len(all_rows) :
          (/\ all_rows[i].option = "Companion"
           /\ all_rows[i].baseline_2025_crypt = NaN
           /\ SinglesOf(i) # {})
          => \E j \in SinglesOf(i) :
                LET s == all_rows[j].baseline_2025_crypt
                    v == lib[i].baseline_2025_crypt
                IN  /\ SmallestEnd995Geq16(v, s)
                    /\ (s = 1000 => v = 1995)

C7_Witness ==
    /\ pc = "bootstrap"
    /\ library_exists
    /\ Len(all_rows) = 2
    /\ all_rows[1].option = "Single"
    /\ all_rows[1].baseline_2025_crypt = 1000
    /\ all_rows[2].option = "Companion"
    /\ all_rows[2].baseline_2025_crypt = NaN
    /\ Key(all_rows[1]) = Key(all_rows[2])
    /\ lib[2].baseline_2025_crypt = 1995

\* C8: the derivation is a fallback only: a Companion row that has a baseline
\* crypt price keeps it; the derived value is written only when the Companion
\* price is missing and a Single price exists for the same (product family,
\* group, theme); rows of another option are not touched by the derivation.
C8_FallbackOnly ==
    (pc = "bootstrap" /\ library_exists)
    => \A i \in 1..Len(all_rows) :
          LET r == all_rows[i]
              v == lib[i].baseline_2025_crypt
          IN  /\ (r.option = "Companion" /\ r.baseline_2025_crypt # NaN
                    => v = r.baseline_2025_crypt)
              /\ (v # r.baseline_2025_crypt
                    => /\ r.option = "Companion"
                       /\ r.baseline_2025_crypt = NaN
                       /\ SinglesOf(i) # {})
              /\ (r.option # "Companion"
                    => /\ v = r.baseline_2025_crypt
                       /\ lib[i].baseline_2025_front = r.baseline_2025_front)

C8_Witness ==
    /\ pc = "bootstrap"
    /\ library_exists
    /\ Len(all_rows) = 2
    /\ all_rows[1].option = "Single"
    /\ all_rows[1].baseline_2025_crypt = 1000
    /\ all_rows[2].option = "Companion"
    /\ all_rows[2].baseline_2025_crypt = 1247
    /\ Key(all_rows[1]) = Key(all_rows[2])
    /\ lib[2].baseline_2025_crypt = 1247

----------------------------------------------------------------------------
(* Strings: str.lower, str.upper, str.title, str.strip, "in", int().       *)

UPPERCASE == "ABCDEFGHIJKLMNOPQRSTUVWXYZ"
LOWERCASE == "abcdefghijklmnopqrstuvwxyz"
DIGITS == "0123456789"

CharAt(s, i) == SubSeq(s, i, i)
Rest(s) == SubSeq(s, 2, Len(s))

\* position of the character c in s, 0 when it is absent
IndexIn(c, s) ==
    IF \E i \in 1..Len(s) : CharAt(s, i) = c
    THEN CHOOSE i \in 1..Len(s) : CharAt(s, i) = c
    ELSE 0

\* the case mappings of the letters and the values of the digits
LOWER == [c \in {CharAt(UPPERCASE, i) : i \in 1..26} |->
             CharAt(LOWERCASE, IndexIn(c, UPPERCASE))]
UPPER == [c \in {CharAt(LOWERCASE, i) : i \in 1..26} |->
             CharAt(UPPERCASE, IndexIn(c, LOWERCASE))]
DIGIT == [c \in {CharAt(DIGITS, i) : i \in 1..10} |-> IndexIn(c, DIGITS) - 1]

lower_char(c) == IF c \in DOMAIN LOWER THEN LOWER[c] ELSE c
upper_char(c) == IF c \in DOMAIN UPPER THEN UPPER[c] ELSE c
is_alpha(c) == c \in DOMAIN LOWER \/ c \in DOMAIN UPPER
is_digit(c) == c \in DOMAIN DIGIT

\* str.lower and str.upper: a text of several characters is the lower (upper)
\* case of its first half followed by that of its second half
RECURSIVE lower(_)
lower(s) ==
    IF Len(s) <= 1 THEN lower_char(s)
    ELSE lower(SubSeq(s, 1, Len(s) \div 2))
             \o lower(SubSeq(s, Len(s) \div 2 + 1, Len(s)))

RECURSIVE upper(_)
upper(s) ==
    IF Len(s) <= 1 THEN upper_char(s)
    ELSE upper(SubSeq(s, 1, Len(s) \div 2))
             \o upper(SubSeq(s, Len(s) \div 2 + 1, Len(s)))

RECURSIVE title_from(_, _)
title_from(s, prev_alpha) ==
    IF Len(s) = 0 THEN ""
    ELSE LET c == CharAt(s, 1) IN
         (IF prev_alpha THEN lower_char(c) ELSE upper_char(c))
             \o title_from(Rest(s), is_alpha(c))

title(s) == title_from(s, FALSE)

RECURSIVE lstrip(_)
lstrip(s) ==
    IF Len(s) > 0 /\ CharAt(s, 1) = " " THEN lstrip(Rest(s)) ELSE s

RECURSIVE rstrip(_)
rstrip(s) ==
    IF Len(s) > 0 /\ CharAt(s, Len(s)) = " "
    THEN rstrip(SubSeq(s, 1, Len(s) - 1)) ELSE s

strip(s) == rstrip(lstrip(s))

\* sub in s
contains(s, sub) ==
    \E i \in 1..(Len(s) - Len(sub) + 1) : SubSeq(s, i, i + Len(sub) - 1) = sub

ends_with(s, suffix) ==
    Len(s) >= Len(suffix) /\ SubSeq(s, Len(s) - Len(suffix) + 1, Len(s)) = suffix

\* the longest prefix of s made of digits: what a leading \d+ captures
RECURSIVE leading_digits(_)
leading_digits(s) ==
    IF Len(s) > 0 /\ is_digit(CharAt(s, 1))
    THEN CharAt(s, 1) \o leading_digits(Rest(s)) ELSE ""

all_digits(s) == Len(s) > 0 /\ leading_digits(s) = s

\* int(s) for a string of digits
RECURSIVE int_from(_, _)
int_from(s, acc) ==
    IF Len(s) = 0 THEN acc
    ELSE int_from(Rest(s), 10 * acc + DIGIT[CharAt(s, 1)])

int(s) == int_from(s, 0)

----------------------------------------------------------------------------
(* FaCTS loader and the availability buckets.  A Space cell is held as the *)
(* list of its words (the text split at whitespace): the space patterns    *)
(* are sequences of words separated by \s+ or by one blank.                *)

\* load_facts: rows without a Location are dropped, the text columns are
\* stripped
load_facts_row(r) ==
    [Location |-> r.Location, Section |-> strip(r.Section),
     Status |-> strip(r.Status), Sales_Item |-> strip(r.Sales_Item),
     Space |-> r.Space]

RECURSIVE load_facts(_)
load_facts(raw) ==
    IF raw = <<>> THEN <<>>
    ELSE (IF Head(raw).Location # None THEN <<load_facts_row(Head(raw))>> ELSE <<>>)
             \o load_facts(Tail(raw))

\* re.sub(r"\s+", " ", s): every run of blanks becomes one blank
\* (the characters lo..hi of s: a blank that another blank follows is left
\* out; a range of several characters is cut in two halves)
RECURSIVE collapse_range(_, _, _)
collapse_range(s, lo, hi) ==
    IF lo > hi THEN ""
    ELSE IF lo = hi
         THEN (IF lo < Len(s) /\ CharAt(s, lo) = " " /\ CharAt(s, lo + 1) = " "
               THEN "" ELSE CharAt(s, lo))
    ELSE collapse_range(s, lo, (lo + hi) \div 2)
             \o collapse_range(s, (lo + hi) \div 2 + 1, hi)

collapse_blanks(s) == collapse_range(s, 1, Len(s))

\* df.columns: the header cells, blanks collapsed and trimmed
columns(hs) == {strip(collapse_blanks(h)) : h \in hs}

\* sorted(required_columns)
sorted_required_columns ==
    <<"Location", "Sales Item", "Section", "Space", "Status">>

\* ", ".join(names)
RECURSIVE join(_)
join(names) ==
    IF names = <<>> THEN ""
    ELSE IF Len(names) = 1 THEN names[1]
    ELSE names[1] \o ", " \o join(Tail(names))

\* a message that lists every required column
missing_list_all_required(missing) == join(sorted_required_columns)

\* load_facts: missing_list = ", ".join(sorted(missing))
missing_list(missing) ==
    join(SelectSeq(sorted_required_columns, LAMBDA c : c \in missing))

\* the status test that compares the text as it is spelled
is_available_case_sensitive(status) == strip(status) = "available"

is_available(status) == lower(strip(status)) = "available"

\* ROW_THEME_MV.get(row_letter, row_letter); the dash of the theme names
\* (U+2013 in the source) is written "-"
ROW_THEME_MV_get(row_letter) ==
    CASE row_letter = "D" -> "D - Touch"
      [] row_letter = "C" -> "C - Eye"
      [] row_letter = "B" -> "B - Heart"
      [] row_letter = "A" -> "A - Prayer"
      [] OTHER -> row_letter

\* MV_CRYPT_RE matched (re.IGNORECASE) on the words sp[i], sp[i+1], ...
MV_CRYPT_RE_at(sp, i) ==
    /\ i + 11 <= Len(sp)
    /\ ends_with(lower(sp[i]), "mountain")
    /\ lower(sp[i + 1]) = "view"
    /\ lower(sp[i + 2]) = "mausoleum"
    /\ lower(sp[i + 3]) = "crypts"
    /\ lower(sp[i + 4]) \in {"upper", "lower"}
    /\ lower(sp[i + 5]) = "level"
    /\ lower(sp[i + 6]) = "elevation"
    /\ all_digits(sp[i + 7])
    /\ lower(sp[i + 8]) = "level"
    /\ lower(sp[i + 9]) \in {"a", "b", "c", "d"}
    /\ lower(sp[i + 10]) = "crypt"
    /\ leading_digits(sp[i + 11]) # ""

\* a search that files a space it cannot read under crypt 0 of Upper Level,
\* Elevation 1, Level D
MV_CRYPT_RE_search_catch_all(sp) ==
    LET I == {i \in 1..Len(sp) : MV_CRYPT_RE_at(sp, i)} IN
    IF I = {} THEN [ok |-> TRUE, g1 |-> "Upper Level", g2 |-> "1", g3 |-> "D",
                    g4 |-> "0"]
    ELSE LET i == CHOOSE a \in I : \A b \in I : a <= b IN
         [ok |-> TRUE,
          g1 |-> sp[i + 4] \o " " \o sp[i + 5],
          g2 |-> sp[i + 7],
          g3 |-> sp[i + 9],
          g4 |-> leading_digits(sp[i + 11])]

\* MV_CRYPT_RE.search(space): the groups of the leftmost match
MV_CRYPT_RE_search(sp) ==
    LET I == {i \in 1..Len(sp) : MV_CRYPT_RE_at(sp, i)} IN
    IF I = {} THEN [ok |-> FALSE]
    ELSE LET i == CHOOSE a \in I : \A b \in I : a <= b IN
         [ok |-> TRUE,
          g1 |-> sp[i + 4] \o " " \o sp[i + 5],
          g2 |-> sp[i + 7],
          g3 |-> sp[i + 9],
          g4 |-> leading_digits(sp[i + 11])]

\* the rows list built by the loop of mv_buckets
RECURSIVE mv_rows(_)
mv_rows(fs) ==
    IF fs = <<>> THEN <<>>
    ELSE LET r == Head(fs)
             m == MV_CRYPT_RE_search(r.Space)
         IN  (IF lower(r.Section) = "mountain view" /\ m.ok
              THEN <<[band |-> title(m.g1),
                      elev |-> int(m.g2),
                      theme |-> ROW_THEME_MV_get(upper(m.g3)),
                      crypt |-> int(m.g4),
                      product |-> IF contains(lower(r.Sales_Item), "tandem")
                                  THEN "Tandem" ELSE "Single",
                      status |-> r.Status]>>
              ELSE <<>>) \o mv_rows(Tail(fs))

\* int(g["status"].map(is_available).sum())
avail_count(rows, I) == Cardinality({i \in I : is_available(rows[i].status)})

\* {"avail", "total", "sold_pct"} of the group of rows I of rows
bucket(rows, I) ==
    LET total == Cardinality(I)
        avail == avail_count(rows, I)
    IN  [avail |-> avail, total |-> total,
         sold_pct |-> IF total # 0
                      THEN RSub(RInt(1), Rat(avail, total)) ELSE RInt(0)]

\* crypt numbers of the rows I, as a list in row order
RECURSIVE crypt_list(_, _)
crypt_list(rows, I) ==
    IF I = {} THEN <<>>
    ELSE LET i == CHOOSE a \in I : \A b \in I : a <= b
         IN  <<rows[i].crypt>> \o crypt_list(rows, I \ {i})

\* the Companion bucket with the available pairs taken as the pairs of the
\* group less the pairs among its unavailable units
companion_bucket_less_sold(rows, I) ==
    LET total_pairs == count_adjacent_pairs(crypt_list(rows, I))
        avail_pairs == total_pairs - count_adjacent_pairs(
            crypt_list(rows, {i \in I : ~is_available(rows[i].status)}))
    IN  [avail |-> avail_pairs, total |-> total_pairs,
         sold_pct |-> IF total_pairs # 0
                      THEN RSub(RInt(1), Rat(avail_pairs, total_pairs))
                      ELSE RInt(0)]

\* the Companion bucket of the Single rows I of a group
companion_bucket(rows, I) ==
    LET total_pairs == count_adjacent_pairs(crypt_list(rows, I))
        avail_pairs == count_adjacent_pairs(
            crypt_list(rows, {i \in I : is_available(rows[i].status)}))
    IN  [avail |-> avail_pairs, total |-> total_pairs,
         sold_pct |-> IF total_pairs # 0
                      THEN RSub(RInt(1), Rat(avail_pairs, total_pairs))
                      ELSE RInt(0)]

\* mv_buckets after the loop: the buckets of the rows list rows
mv_groups(rows) ==
    LET single == {i \in 1..Len(rows) : rows[i].product = "Single"}
        groups == {<<rows[i].band, rows[i].elev, rows[i].theme>> : i \in single}
        g(k) == {i \in single :
                    <<rows[i].band, rows[i].elev, rows[i].theme>> = <<k[1], k[2], k[3]>>}
    IN  IF rows = <<>> THEN <<>>
        ELSE [k \in {<<gk[1], gk[2], gk[3], opt>> :
                        gk \in groups, opt \in {"Single", "Companion"}} |->
                 IF k[4] = "Single" THEN bucket(rows, g(k))
                 ELSE companion_bucket(rows, g(k))]

mv_buckets(fs) == mv_groups(mv_rows(fs))

\* ROW_THEME_ABCDE.get(row_letter, row_letter)
ROW_THEME_ABCDE_get(row_letter) ==
    CASE row_letter = "E" -> "E - Heavenly"
      [] row_letter = "D" -> "D (Touch)"
      [] row_letter = "C" -> "C (Eye)"
      [] row_letter = "B" -> "B (Heart)"
      [] row_letter = "A" -> "A (Prayer)"
      [] OTHER -> row_letter

\* ([0-9]+)([A-E]) at the start of the word w
level_word(w) ==
    LET d == leading_digits(w) IN
    /\ d # ""
    /\ Len(w) > Len(d)
    /\ lower(CharAt(w, Len(d) + 1)) \in {"a", "b", "c", "d", "e"}

\* LS_CRYPT_RE matched (re.IGNORECASE) on the words sp[i], sp[i+1], ...
LS_CRYPT_RE_at(sp, i) ==
    /\ i + 6 <= Len(sp)
    /\ ends_with(lower(sp[i]), "last")
    /\ lower(sp[i + 1]) = "supper"
    /\ lower(sp[i + 2]) = "maus"
    /\ lower(sp[i + 3]) = "bldg"
    /\ sp[i + 4] \in {"7", "8", "5"}
    /\ lower(sp[i + 5]) = "crypt/level"
    /\ level_word(sp[i + 6])

\* BT_CRYPT_RE matched (re.IGNORECASE) on the words sp[i], sp[i+1], ...
BT_CRYPT_RE_at(sp, i) ==
    /\ i + 4 <= Len(sp)
    /\ ends_with(lower(sp[i]), "bell")
    /\ lower(sp[i + 1]) = "tower"
    /\ lower(sp[i + 2]) = "mausoleum"
    /\ lower(sp[i + 3]) = "crypt/level"
    /\ level_word(sp[i + 4])

\* space_regex.search(s) for space_regex LS_CRYPT_RE ("LS") or BT_CRYPT_RE
\* ("BT"): group 3 of the leftmost match
space_regex_search(space_regex, sp) ==
    LET I == {i \in 1..Len(sp) :
                 IF space_regex = "LS" THEN LS_CRYPT_RE_at(sp, i)
                 ELSE BT_CRYPT_RE_at(sp, i)}
    IN  IF I = {} THEN [ok |-> FALSE]
        ELSE LET i == CHOOSE a \in I : \A b \in I : a <= b
                 w == sp[i + (IF space_regex = "LS" THEN 6 ELSE 4)]
             IN  [ok |-> TRUE, g3 |-> CharAt(w, Len(leading_digits(w)) + 1)]

\* the rows list built by the loop of building_buckets_simple_by_row
RECURSIVE building_rows(_, _, _, _)
building_rows(fs, facts_section_name, space_regex, include_tandem) ==
    IF fs = <<>> THEN <<>>
    ELSE LET r == Head(fs)
             m == space_regex_search(space_regex, r.Space)
             is_tandem == contains(lower(r.Sales_Item), "tandem")
         IN  (IF /\ r.Section = facts_section_name
                 /\ m.ok
                 /\ ~(is_tandem /\ ~include_tandem)
              THEN <<[theme |-> ROW_THEME_ABCDE_get(upper(m.g3)),
                      option |-> IF is_tandem THEN "Tandem" ELSE "Single",
                      status |-> r.Status]>>
              ELSE <<>>)
             \o building_rows(Tail(fs), facts_section_name, space_regex,
                              include_tandem)

\* building_buckets_simple_by_row after the loop: the buckets of rows
building_groups(rows) ==
    LET groups == {<<rows[i].theme, rows[i].option>> : i \in 1..Len(rows)}
        g(k) == {i \in 1..Len(rows) : <<rows[i].theme, rows[i].option>> = k}
    IN  IF rows = <<>> THEN <<>>
        ELSE [k \in groups |-> bucket(rows, g(k))]

building_buckets_simple_by_row(fs, facts_section_name, space_regex, include_tandem) ==
    building_groups(building_rows(fs, facts_section_name, space_regex, include_tandem))

MaxUnits == 2
MaxCrypt == 3

Row(location, section, status, space, sales_item) ==
    [Location |-> location, Section |-> section, Status |-> status,
     Space |-> space, Sales_Item |-> sales_item]

MVSpace(band, elev, level, crypt) ==
    <<"Mountain", "View", "Mausoleum", "Crypts", band, "Level",
      "Elevation", elev, "Level", level, "Crypt", crypt>>

BTSpace(level) == <<"Bell", "Tower", "Mausoleum", "Crypt/Level", level>>
LSSpace(bldg, level) ==
    <<"Last", "Supper", "Maus", "Bldg", bldg, "Crypt/Level", level>>

\* rows of the export: the crypts 1..MaxCrypt of Mountain View, Upper Level,
\* Elevation 1, Level D in three spellings of the status, and rows that
\* differ from them in one column
ExportRows ==
    {Row("Harpeth Hills", "Mountain View", st,
         MVSpace("Upper", "1", "D", CharAt(DIGITS, c + 1)), "Single Crypt") :
        c \in 1..MaxCrypt, st \in {"Available", " AVAILABLE ", "Sold"}}
    \cup
    {Row("Harpeth Hills", "MOUNTAIN VIEW ", "available",
         MVSpace("Upper", "1", "D", "2"), "Single Crypt"),
     Row("Harpeth Hills", "Mountain View", "Unavailable",
         MVSpace("Upper", "1", "c", "1"), "Single Crypt"),
     Row("Harpeth Hills", "Mountain View", "Available",
         MVSpace("lower", "2", "D", "1"), "Single Crypt"),
     Row("Harpeth Hills", "Mountain View", "Available",
         MVSpace("Upper", "1", "D", "1"), "TANDEM Crypt"),
     Row("Harpeth Hills", "Mountain View", "Available",
         MVSpace("Upper", "1", "E", "1"), "Single Crypt"),
     Row("Harpeth Hills", "Mountain View", "Available", <<"nan">>, "nan"),
     Row(None, "Mountain View", "Available",
         MVSpace("Upper", "1", "D", "1"), "Single Crypt"),
     Row("Harpeth Hills", "Bell Tower Mausoleum", "Available",
         BTSpace("14E-2"), "Single Crypt"),
     Row("Harpeth Hills", "Bell Tower Mausoleum", "Sold",
         BTSpace("3e"), "Single Crypt"),
     Row("Harpeth Hills", "Bell Tower Mausoleum", "Available",
         BTSpace("1A"), "Tandem Crypt"),
     Row("Harpeth Hills", "Bell Tower Mausoleum", "Available",
         BTSpace("14F"), "Single Crypt"),
     Row("Harpeth Hills", "Last Supper Maus Bldg 7", "AVAILABLE",
         LSSpace("7", "1A"), "Single Crypt"),
     Row("Harpeth Hills", "Last Supper Maus Bldg 7", "Sold",
         LSSpace("7", "2A"), "Single Crypt"),
     Row("Harpeth Hills", "Last Supper Maus Bldg 7", "Available",
         LSSpace("7", "3A"), "Tandem Crypt"),
     Row("Harpeth Hills", "Last Supper Maus Bldg 8", "Available",
         LSSpace("8", "2B"), "Single Crypt")}

InitBuckets ==
    /\ pc = "start"
    /\ facts_xlsm \in UNION {[1..k -> ExportRows] : k \in 0..MaxUnits}
    /\ NoBuckets
    /\ IdlePricing /\ IdlePairs /\ IdleBootstrap /\ IdlePublish
    /\ IdleInventory

\* publish: facts = load_facts(); load_facts raises ValueError when a
\* required column is missing, and publish ends there
publish_load_facts ==
    /\ pc = "start"
    /\ LET missing == required_columns \ columns(headers) IN
       IF missing # {}
       THEN /\ pc' = "ValueError"
            /\ raised' = "FaCTS export is missing required columns: "
                             \o missing_list(missing)
            /\ UNCHANGED facts
       ELSE /\ pc' = "facts"
            /\ facts' = load_facts(facts_xlsm)
            /\ UNCHANGED raised
    /\ UNCHANGED <<facts_xlsm, inv, mv, b7, b8, bt, pricingVars, pairVars,
                   bootstrapVars, headers, out_wb, output_exists, output_xlsx,
                   published, runs, cmd>>
    /\ UNCHANGED inventoryVars

\* mv_buckets(facts), the loop over the rows
mv_buckets_rows ==
    /\ pc = "facts"
    /\ pc' = "mv_rows"
    /\ inv' = mv_rows(facts)
    /\ UNCHANGED <<facts_xlsm, facts, mv, b7, b8, bt, pricingVars, pairVars,
                   bootstrapVars, publishVars>>
    /\ UNCHANGED inventoryVars

\* mv_buckets(facts), the groups; publish: mv = mv_buckets(facts)
mv_buckets_groups ==
    /\ pc = "mv_rows"
    /\ pc' = "mv"
    /\ mv' = mv_groups(inv)
    /\ inv' = <<>>
    /\ UNCHANGED <<facts_xlsm, facts, b7, b8, bt, pricingVars, pairVars,
                   bootstrapVars, publishVars>>
    /\ UNCHANGED inventoryVars

\* building_buckets_simple_by_row(facts, ...), the loop over the rows
building_buckets_rows(from, to, facts_section_name, space_regex, include_tandem) ==
    /\ pc = from
    /\ pc' = to
    /\ inv' = building_rows(facts, facts_section_name, space_regex, include_tandem)
    /\ UNCHANGED <<facts_xlsm, facts, mv, b7, b8, bt, pricingVars, pairVars,
                   bootstrapVars, publishVars>>
    /\ UNCHANGED inventoryVars

\* publish: b7 = building_buckets_simple_by_row(facts, ...Bldg 7, ...)
b7_buckets_rows ==
    building_buckets_rows("mv", "b7_rows", "Last Supper Maus Bldg 7", "LS", FALSE)

b7_buckets_groups ==
    /\ pc = "b7_rows"
    /\ pc' = "b7"
    /\ b7' = building_groups(inv)
    /\ inv' = <<>>
    /\ UNCHANGED <<facts_xlsm, facts, mv, b8, bt, pricingVars, pairVars,
                   bootstrapVars, publishVars>>
    /\ UNCHANGED inventoryVars

\* publish: b8 = building_buckets_simple_by_row(facts, ...Bldg 8, ...)
b8_buckets_rows ==
    building_buckets_rows("b7", "b8_rows", "Last Supper Maus Bldg 8", "LS", FALSE)

b8_buckets_groups ==
    /\ pc = "b8_rows"
    /\ pc' = "b8"
    /\ b8' = building_groups(inv)
    /\ inv' = <<>>
    /\ UNCHANGED <<facts_xlsm, facts, mv, b7, bt, pricingVars, pairVars,
                   bootstrapVars, publishVars>>
    /\ UNCHANGED inventoryVars

\* publish: bt = building_buckets_simple_by_row(facts, Bell Tower, ...)
bt_buckets_rows ==
    building_buckets_rows("b8", "bt_rows", "Bell Tower Mausoleum", "BT", TRUE)

bt_buckets_groups ==
    /\ pc = "bt_rows"
    /\ pc' = "buckets"
    /\ bt' = building_groups(inv)
    /\ inv' = <<>>
    /\ UNCHANGED <<facts_xlsm, facts, mv, b7, b8, pricingVars, pairVars,
                   bootstrapVars, publishVars>>
    /\ UNCHANGED inventoryVars

NextBuckets ==
    \/ publish_load_facts
    \/ mv_buckets_rows
    \/ mv_buckets_groups
    \/ b7_buckets_rows
    \/ b7_buckets_groups
    \/ b8_buckets_rows
    \/ b8_buckets_groups
    \/ bt_buckets_rows
    \/ bt_buckets_groups

SpecBuckets == InitBuckets /\ [][NextBuckets]_vars

\* the text is "available" once trimmed, whatever the case of its letters
SpelledAvailable(status) ==
    LET t == strip(status) IN
    /\ Len(t) = 9
    /\ \A i \in 1..9 : CharAt(t, i) \in {CharAt("available", i), CharAt("AVAILABLE", i)}

\* b is the bucket of the units I of the parsed rows rows
BucketOf(b, rows, I) ==
    /\ b.total = Cardinality(I)
    /\ b.avail = Cardinality({i \in I : SpelledAvailable(rows[i].status)})
    /\ 0 <= b.avail /\ b.avail <= b.total
    /\ b.total > 0
    /\ b.sold_pct[2] > 0
    /\ b.sold_pct[1] * b.total = (b.total - b.avail) * b.sold_pct[2]
    /\ 0 <= b.sold_pct[1] /\ b.sold_pct[1] <= b.sold_pct[2]

BuildingBucketsOk(out, facts_section_name, space_regex, include_tandem) ==
    LET rows == building_rows(load_facts(facts_xlsm), facts_section_name,
                             space_regex, include_tandem)
    IN  \A k \in DOMAIN out :
           BucketOf(out[k], rows,
                    {i \in 1..Len(rows) : rows[i].theme = k[1] /\ rows[i].option = k[2]})

\* C10: in every Single bucket of mv_buckets and every bucket of
\* building_buckets_simple_by_row, total is the number of parsed units of the
\* bucket, avail the number of them whose status is "available" (trimmed,
\* any case), 0 <= avail <= total, total > 0 and
\* sold_pct = (total - avail) / total, a value in [0, 1].
C10_BucketCounts ==
    pc = "buckets"
    => /\ LET rows == mv_rows(load_facts(facts_xlsm)) IN
          \A k \in DOMAIN mv :
             k[4] = "Single"
             => BucketOf(mv[k], rows,
                         {i \in 1..Len(rows) : /\ rows[i].product = "Single"
                                              /\ rows[i].band = k[1]
                                              /\ rows[i].elev = k[2]
                                              /\ rows[i].theme = k[3]})
       /\ BuildingBucketsOk(b7, "Last Supper Maus Bldg 7", "LS", FALSE)
       /\ BuildingBucketsOk(b8, "Last Supper Maus Bldg 8", "LS", FALSE)
       /\ BuildingBucketsOk(bt, "Bell Tower Mausoleum", "BT", TRUE)

C10_Witness ==
    /\ pc = "buckets"
    /\ Len(facts_xlsm) = 2
    /\ facts_xlsm[1].Status = " AVAILABLE "
    /\ facts_xlsm[2].Status = "Sold"
    /\ DOMAIN mv = {<<"Upper Level", 1, "D - Touch", "Single">>,
                    <<"Upper Level", 1, "D - Touch", "Companion">>}
    /\ mv[<<"Upper Level", 1, "D - Touch", "Single">>] =
           [avail |-> 1, total |-> 1, sold_pct |-> <<0, 1>>]
    /\ DOMAIN bt = {<<"E - Heavenly", "Single">>}
    /\ bt[<<"E - Heavenly", "Single">>] =
           [avail |-> 0, total |-> 1, sold_pct |-> <<1, 1>>]

----------------------------------------------------------------------------
(* mv_buckets on the units of one row of crypts: an export that lists the  *)
(* crypts 1..MaxPairCrypt of Mountain View, Upper Level, Elevation 1,      *)
(* Level D in crypt order, each one absent, available or sold.             *)

MaxPairCrypt == 4

\* the status of each crypt; "" stands for a crypt the export does not list
CryptStatuses == [1..MaxPairCrypt -> {"", "Available", "available ", "Sold"}]

RECURSIVE CryptUnits(_, _)
CryptUnits(st, c) ==
    IF c > MaxPairCrypt THEN <<>>
    ELSE (IF st[c] = "" THEN <<>>
          ELSE <<Row("Harpeth Hills", "Mountain View", st[c],
                     MVSpace("Upper", "1", "D", CharAt(DIGITS, c + 1)),
                     "Single Crypt")>>)
         \o CryptUnits(st, c + 1)

InitCompanion ==
    /\ pc = "start"
    /\ \E st \in CryptStatuses : facts_xlsm = CryptUnits(st, 1)
    /\ NoBuckets
    /\ IdlePricing /\ IdlePairs /\ IdleBootstrap /\ IdlePublish
    /\ IdleInventory

NextCompanion ==
    \/ publish_load_facts
    \/ mv_buckets_rows
    \/ mv_buckets_groups

SpecCompanion == InitCompanion /\ [][NextCompanion]_vars

\* the Single units of the group (band, elev, theme) among the parsed rows
SinglesOfGroup(rows, k) ==
    {i \in 1..Len(rows) : /\ rows[i].product = "Single"
                          /\ rows[i].band = k[1]
                          /\ rows[i].elev = k[2]
                          /\ rows[i].theme = k[3]}

\* C11: for each Mountain View (band, elevation, theme) group the Companion
\* bucket has total = count_adjacent_pairs over all Single crypt numbers of
\* the group, avail = count_adjacent_pairs over the available ones, and,
\* whenever total > 0, sold_pct = (total - avail) / total.
C11_CompanionBucket ==
    pc = "mv"
    => LET rows == mv_rows(load_facts(facts_xlsm)) IN
       \A k \in DOMAIN mv :
          k[4] = "Companion"
          => LET I == SinglesOfGroup(rows, k)
                 all_nums == {rows[i].crypt : i \in I}
                 av_nums == {rows[i].crypt :
                                i \in {j \in I : SpelledAvailable(rows[j].status)}}
                 total_pairs == SumHalfRuns(all_nums, RunStarts(all_nums))
                 avail_pairs == SumHalfRuns(av_nums, RunStarts(av_nums))
                 b == mv[k]
             IN  /\ b.total = total_pairs
                 /\ b.avail = avail_pairs
                 /\ (total_pairs > 0
                       => /\ b.sold_pct[2] > 0
                          /\ b.sold_pct[1] * total_pairs =
                                 (total_pairs - avail_pairs) * b.sold_pct[2])

\* crypts 1..4 listed, crypt 2 sold: two pairs in all, one available (3, 4)
C11_Witness ==
    /\ pc = "mv"
    /\ Len(facts_xlsm) = 4
    /\ facts_xlsm[2].Status = "Sold"
    /\ \A i \in {1, 3, 4} : facts_xlsm[i].Status # "Sold"
    /\ mv[<<"Upper Level", 1, "D - Touch", "Companion">>].total = 2
    /\ mv[<<"Upper Level", 1, "D - Touch", "Companion">>].avail = 1
    /\ REq(mv[<<"Upper Level", 1, "D - Touch", "Companion">>].sold_pct, Rat(1, 2))

\* no bucket of the map out that aggregates nothing reports a sold fraction 0
NoDataNotZero(out) ==
    \A k \in DOMAIN out : out[k].total = 0 => ~REq(out[k].sold_pct, RInt(0))

\* C12: a bucket aggregated over an empty unit list (total = 0, or
\* total_pairs = 0 for a Companion bucket) has no sold fraction: the value 0
\* is never reported for it.
C12_EmptyNeverZero ==
    pc = "buckets"
    => NoDataNotZero(mv) /\ NoDataNotZero(b7) /\ NoDataNotZero(b8) /\ NoDataNotZero(bt)

----------------------------------------------------------------------------
(* PUBLISH: the sheets of the output workbook.  A data row of a sheet is   *)
(* held with the sheet, the group and the theme it is written under; a     *)
(* cell that holds a count or a text is <<"int", n>> or <<"str", s>>.      *)

CellInt(n) == <<"int", n>>
CellStr(s) == <<"str", s>>

starts_with(s, prefix) ==
    Len(s) >= Len(prefix) /\ SubSeq(s, 1, Len(prefix)) = prefix

\* re.search(r"(\d+)", s).group(1): the first run of digits of s
RECURSIVE first_digits(_)
first_digits(s) ==
    IF Len(s) = 0 THEN ""
    ELSE IF is_digit(CharAt(s, 1)) THEN leading_digits(s)
    ELSE first_digits(Rest(s))

\* df["group"].dropna().unique() for the rows I of the library, in the order
\* of first appearance
RECURSIVE unique_groups(_, _, _)
unique_groups(df, I, seen) ==
    IF I = {} THEN <<>>
    ELSE LET i == CHOOSE a \in I : \A b \in I : a <= b
             g == df[i].group
         IN  IF g = None \/ g \in seen THEN unique_groups(df, I \ {i}, seen)
             ELSE <<g>> \o unique_groups(df, I \ {i}, seen \cup {g})

\* sorted(..., key=...): stable insertion of <<key, g>> into a sorted list
RECURSIVE insert_by_key(_, _)
insert_by_key(sorted, kg) ==
    IF sorted = <<>> THEN <<kg>>
    ELSE IF kg[1] < Head(sorted)[1] THEN <<kg>> \o sorted
    ELSE <<Head(sorted)>> \o insert_by_key(Tail(sorted), kg)

RECURSIVE sorted_by_key(_)
sorted_by_key(kgs) ==
    IF kgs = <<>> THEN <<>>
    ELSE insert_by_key(sorted_by_key(SubSeq(kgs, 1, Len(kgs) - 1)), kgs[Len(kgs)])

\* elevs: the groups that start with "elevation", sorted by their number
elevs(df, I) ==
    LET gs == SelectSeq(unique_groups(df, I, {}),
                        LAMBDA g : starts_with(lower(g), "elevation"))
        kgs == [j \in 1..Len(gs) |-> <<int(first_digits(gs[j])), gs[j]>>]
        srt == sorted_by_key(kgs)
    IN  [j \in 1..Len(srt) |-> srt[j][2]]

\* grp_sort: UNCOVERED first, COVERED next, the others last (the group
\* labels of this model have distinct ranks, the second component of the
\* sort key never decides)
grp_sort(g) ==
    IF contains(upper(g), "UNCOVERED") THEN 0
    ELSE IF contains(upper(g), "COVERED") THEN 1
    ELSE 2

\* groups = sorted(groups, key=grp_sort)
sorted_groups(df, I) ==
    LET gs == unique_groups(df, I, {})
        kgs == [j \in 1..Len(gs) |-> <<grp_sort(gs[j]), gs[j]>>]
        srt == sorted_by_key(kgs)
    IN  [j \in 1..Len(srt) |-> srt[j][2]]

theme_order_mv == <<"D - Touch", "C - Eye", "B - Heart", "A - Prayer">>
theme_order_abcde ==
    <<"E - Heavenly", "D (Touch)", "C (Eye)", "B (Heart)", "A (Prayer)">>

\* the (group, theme, option) triples in the order of the three nested loops
loop_order(gs, themes, opts) ==
    [k \in 1..(Len(gs) * Len(themes) * Len(opts)) |->
        <<gs[((k - 1) \div (Len(themes) * Len(opts))) + 1],
          themes[(((k - 1) \div Len(opts)) % Len(themes)) + 1],
          opts[((k - 1) % Len(opts)) + 1]>>]

\* row_match: the rows of the sheet's family with this group, theme, option
row_match(df, I, gto) ==
    {i \in I : /\ df[i].group = gto[1]
               /\ df[i].theme = gto[2]
               /\ df[i].option = gto[3]}

\* a lookup whose default is a bucket that is entirely sold
bucket_get_default_sold(bucket_map, key) ==
    IF key \in DOMAIN bucket_map THEN bucket_map[key]
    ELSE [avail |-> 0, total |-> 0, sold_pct |-> RInt(1)]

\* dict.get(key, {"avail": 0, "total": 0, "sold_pct": 0.0})
bucket_get(bucket_map, key) ==
    IF key \in DOMAIN bucket_map THEN bucket_map[key]
    ELSE [avail |-> 0, total |-> 0, sold_pct |-> RInt(0)]

\* availability = avail if avail >= 0 else "Sold Out": a count of 0 is written
availability_cell_zero(avail) ==
    IF avail >= 0 THEN CellInt(avail) ELSE CellStr("Sold Out")

\* availability = avail if avail > 0 else "Sold Out"
availability_cell(avail) ==
    IF avail > 0 THEN CellInt(avail) ELSE CellStr("Sold Out")

\* final_price_from_base(int(base), sold_pct) if pd.notna(base) else None
price_cell(base, sold) ==
    IF base # NaN THEN final_price_from_base(base, sold) ELSE NaN

\* the rows of the workbook published last that were written for rowi
last_published(family, rowi) ==
    {j \in 1..Len(output_xlsx) : /\ output_xlsx[j].sheet = family
                                 /\ output_xlsx[j].group = rowi.group
                                 /\ output_xlsx[j].theme = rowi.theme
                                 /\ output_xlsx[j].option = rowi.option}

\* a row that keeps the prices published last when the bucket is sold out
data_row_frozen_when_sold_out(family, rowi, b) ==
    LET prev == last_published(family, rowi)
        crypt == price_cell(rowi.base_price_locked_crypt, b.sold_pct)
        front == price_cell(rowi.base_price_locked_front, b.sold_pct)
    IN  IF b.avail = 0 /\ prev # {}
        THEN [output_xlsx[CHOOSE j \in prev : TRUE] EXCEPT
                 !.availability = availability_cell(b.avail)]
        ELSE [sheet |-> family, group |-> rowi.group, theme |-> rowi.theme,
              theme_label |-> IF rowi.option = "Single" THEN rowi.theme ELSE None,
              option |-> rowi.option,
              crypt |-> crypt,
              front |-> front,
              total |-> IF crypt # NaN /\ front # NaN THEN crypt + front ELSE NaN,
              availability |-> availability_cell(b.avail)]

\* a row whose uplift is applied to the price published last, when there is
\* one, in place of the locked base price
data_row_compounding(family, rowi, b) ==
    LET prev == last_published(family, rowi)
        last == output_xlsx[CHOOSE j \in prev : TRUE]
        crypt == price_cell(IF prev # {} THEN last.crypt
                            ELSE rowi.base_price_locked_crypt, b.sold_pct)
        front == price_cell(IF prev # {} THEN last.front
                            ELSE rowi.base_price_locked_front, b.sold_pct)
    IN  [sheet |-> family, group |-> rowi.group, theme |-> rowi.theme,
         theme_label |-> IF rowi.option = "Single" THEN rowi.theme ELSE None,
         option |-> rowi.option,
         crypt |-> crypt,
         front |-> front,
         total |-> IF crypt # NaN /\ front # NaN THEN crypt + front ELSE NaN,
         availability |-> availability_cell(b.avail)]

\* a row whose Total is the price of base_price_locked_total
data_row_total_from_locked(family, rowi, b) ==
    [sheet |-> family, group |-> rowi.group, theme |-> rowi.theme,
     theme_label |-> IF rowi.option = "Single" THEN rowi.theme ELSE None,
     option |-> rowi.option,
     crypt |-> price_cell(rowi.base_price_locked_crypt, b.sold_pct),
     front |-> price_cell(rowi.base_price_locked_front, b.sold_pct),
     total |-> price_cell(rowi.base_price_locked_total, b.sold_pct),
     availability |-> availability_cell(b.avail)]

\* the values handed to write_data_row for the library row rowi and bucket b
data_row(family, rowi, b) ==
    LET crypt == price_cell(rowi.base_price_locked_crypt, b.sold_pct)
        front == price_cell(rowi.base_price_locked_front, b.sold_pct)
    IN  [sheet |-> family, group |-> rowi.group, theme |-> rowi.theme,
         theme_label |-> IF rowi.option = "Single" THEN rowi.theme ELSE None,
         option |-> rowi.option,
         crypt |-> crypt,
         front |-> front,
         total |-> IF crypt # NaN /\ front # NaN THEN crypt + front ELSE NaN,
         availability |-> availability_cell(b.avail)]

\* band and elev of a Mountain View sheet and group
mv_key(family, gto) ==
    <<IF contains(family, "Upper") THEN "Upper Level" ELSE "Lower Level",
      int(first_digits(gto[1])), gto[2], gto[3]>>

\* Companion uses the Single bucket of the row theme
building_key(gto) ==
    IF gto[3] = "Companion" THEN <<gto[2], "Single">> ELSE <<gto[2], gto[3]>>

\* the data rows written by the loops, for the triples gtos in loop order
RECURSIVE sheet_rows(_, _, _, _, _, _)
sheet_rows(family, df, I, gtos, bucket_map, is_mv) ==
    IF gtos = <<>> THEN <<>>
    ELSE LET gto == Head(gtos)
             m == row_match(df, I, gto)
         IN  (IF Cardinality(m) # 1 THEN <<>>
              ELSE <<data_row(family, df[CHOOSE i \in m : TRUE],
                              bucket_get(bucket_map,
                                         IF is_mv THEN mv_key(family, gto)
                                         ELSE building_key(gto)))>>)
             \o sheet_rows(family, df, I, Tail(gtos), bucket_map, is_mv)

\* build_mausoleum_sheet(product_family, ...): the data rows of the sheet
build_mausoleum_sheet(product_family, df, mvb, b7b, b8b, btb) ==
    LET I == {i \in 1..Len(df) : df[i].product_family = product_family} IN
    IF starts_with(product_family, "Mountain View")
    THEN sheet_rows(product_family, df, I,
                    loop_order(elevs(df, I), theme_order_mv,
                               <<"Single", "Companion">>),
                    mvb, TRUE)
    ELSE sheet_rows(product_family, df, I,
                    loop_order(sorted_groups(df, I), theme_order_abcde,
                               <<"Single", "Tandem", "Companion">>),
                    IF product_family = "Building 7 Mausoleum" THEN b7b
                    ELSE IF product_family = "Building 8 Mausoleum" THEN b8b
                    ELSE IF product_family = "Bell Tower Mausoleum" THEN btb
                    ELSE <<>>,
                    FALSE)

----------------------------------------------------------------------------
(* The command line: bootstrap and publish runs, one after the other, on   *)
(* the files of the working directory.  Between two commands the operator  *)
(* may replace the FaCTS export and edit BasePriceLocked in the library.   *)

MaxRuns == 3

MasterRow(family, group, theme, option, crypt, front) ==
    [product_family |-> family, group |-> group, theme |-> theme,
     option |-> option, baseline_2025_crypt |-> crypt,
     baseline_2025_front |-> front, baseline_2025_total |-> NaN,
     single_plaque |-> NaN, tandem_plaque |-> NaN, companion_plaque |-> NaN]

\* the records parse_sheet extracts from a master listing with four sheets
MasterListing ==
    <<MasterRow("Mountain View - Upper Level", "Elevation 1", "D - Touch",
                "Single", 1000, 395),
      MasterRow("Mountain View - Upper Level", "Elevation 1", "D - Touch",
                "Companion", NaN, NaN),
      MasterRow("Building 7 Mausoleum", "UNCOVERED", "A (Prayer)",
                "Single", 1247, 395),
      MasterRow("Building 7 Mausoleum", "UNCOVERED", "A (Prayer)",
                "Companion", NaN, 700),
      MasterRow("Building 8 Mausoleum", "COVERED", "B (Heart)",
                "Single", 1000, NaN),
      MasterRow("Bell Tower Mausoleum", "ALL LEVELS", "E - Heavenly",
                "Tandem", 3000, 395)>>

\* the master listing, or a workbook in which no price table is detected
MasterListings == {MasterListing, <<>>}

MVUnit(crypt, status) ==
    Row("Harpeth Hills", "Mountain View", status,
        MVSpace("Upper", "1", "D", crypt), "Single Crypt")

B7Unit(level, status) ==
    Row("Harpeth Hills", "Last Supper Maus Bldg 7", status,
        LSSpace("7", level), "Single Crypt")

\* exports: no unit; every unit available; every unit sold; and nine of the
\* ten units of row A of Building 7 sold
Exports ==
    {<<>>,
     <<MVUnit("1", "Available"), MVUnit("2", "Available"),
       B7Unit("1A", "Available")>>,
     <<MVUnit("1", "Sold"), MVUnit("2", "Sold"), B7Unit("1A", "Sold")>>,
     <<B7Unit("1A", "Sold"), B7Unit("2A", "Sold"), B7Unit("3A", "Sold"),
       B7Unit("4A", "Sold"), B7Unit("5A", "Sold"), B7Unit("6A", "Sold"),
       B7Unit("7A", "Sold"), B7Unit("8A", "Sold"), B7Unit("9A", "Sold"),
       B7Unit("10A", "Available")>>}

\* header rows: the required columns (with stray blanks), a header row
\* without Status and Sales Item, and one without Space
HeaderRows ==
    {{"Location", " Section", "Status ", "Space", "Sales  Item", "Type"},
     {"Location", "Section", "Space", "Type"},
     {"Location", "Section", "Status", "Sales Item", "Spaces"}}

\* values an operator types into BasePriceLocked
LockedEdits == {1700}

\* a state in which the shell waits for a command
Prompt == {"cli", "bootstrap", "published", "KeyError", "ValueError"}

Init ==
    /\ pc = "cli"
    /\ all_rows \in MasterListings
    /\ library_exists = FALSE
    /\ lib = <<>>
    /\ facts_xlsm \in Exports
    /\ headers \in HeaderRows
    /\ NoBuckets
    /\ raised = ""
    /\ out_wb = <<>>
    /\ output_exists = FALSE
    /\ output_xlsx = <<>>
    /\ published = {}
    /\ runs = 0
    /\ cmd = ""
    /\ IdlePricing /\ IdlePairs
    /\ IdleInventory

\* a bootstrap command that builds the library whether or not it exists
cli_bootstrap_rebuild ==
    /\ pc \in Prompt
    /\ runs < MaxRuns
    /\ runs' = runs + 1
    /\ cmd' = "bootstrap"
    /\ IF all_rows = <<>>
       THEN /\ pc' = "KeyError"
            /\ raised' = "KeyError: 'option'"
            /\ UNCHANGED <<library_exists, lib>>
       ELSE /\ pc' = "bootstrap"
            /\ raised' = ""
            /\ library_exists' = TRUE
            /\ lib' = price_library(all_rows)
    /\ UNCHANGED <<all_rows, pricingVars, pairVars, bucketVars, headers, out_wb,
                   output_exists, output_xlsx, published>>
    /\ UNCHANGED inventoryVars

\* python pricebook_generator.py bootstrap
cli_bootstrap ==
    /\ pc \in Prompt
    /\ runs < MaxRuns
    /\ runs' = runs + 1
    /\ cmd' = "bootstrap"
    /\ IF library_exists
       THEN pc' = "bootstrap" /\ raised' = "" /\ UNCHANGED <<library_exists, lib>>
       ELSE IF all_rows = <<>>
            THEN /\ pc' = "KeyError"
                 /\ raised' = "KeyError: 'option'"
                 /\ UNCHANGED <<library_exists, lib>>
            ELSE /\ pc' = "bootstrap"
                 /\ raised' = ""
                 /\ library_exists' = TRUE
                 /\ lib' = price_library(all_rows)
    /\ UNCHANGED <<all_rows, pricingVars, pairVars, bucketVars, headers, out_wb,
                   output_exists, output_xlsx, published>>
    /\ UNCHANGED inventoryVars

\* a publish command that rebuilds the library on every run
cli_publish_rebuild ==
    /\ pc \in Prompt
    /\ runs < MaxRuns
    /\ runs' = runs + 1
    /\ cmd' = "publish"
    /\ IF all_rows = <<>>
       THEN /\ pc' = "KeyError"
            /\ raised' = "KeyError: 'option'"
            /\ UNCHANGED <<library_exists, lib>>
       ELSE /\ pc' = "start"
            /\ raised' = ""
            /\ library_exists' = TRUE
            /\ lib' = price_library(all_rows)
    /\ facts' = <<>> /\ inv' = <<>>
    /\ mv' = <<>> /\ b7' = <<>> /\ b8' = <<>> /\ bt' = <<>>
    /\ out_wb' = <<>>
    /\ UNCHANGED <<all_rows, facts_xlsm, pricingVars, pairVars, headers,
                   output_exists, output_xlsx, published>>
    /\ UNCHANGED inventoryVars

\* python pricebook_generator.py publish, up to load_facts: the library is
\* bootstrapped when it does not exist
cli_publish ==
    /\ pc \in Prompt
    /\ runs < MaxRuns
    /\ runs' = runs + 1
    /\ cmd' = "publish"
    /\ IF library_exists
       THEN pc' = "start" /\ raised' = "" /\ UNCHANGED <<library_exists, lib>>
       ELSE IF all_rows = <<>>
            THEN /\ pc' = "KeyError"
                 /\ raised' = "KeyError: 'option'"
                 /\ UNCHANGED <<library_exists, lib>>
            ELSE /\ pc' = "start"
                 /\ raised' = ""
                 /\ library_exists' = TRUE
                 /\ lib' = price_library(all_rows)
    /\ facts' = <<>> /\ inv' = <<>>
    /\ mv' = <<>> /\ b7' = <<>> /\ b8' = <<>> /\ bt' = <<>>
    /\ out_wb' = <<>>
    /\ UNCHANGED <<all_rows, facts_xlsm, pricingVars, pairVars, headers,
                   output_exists, output_xlsx, published>>
    /\ UNCHANGED inventoryVars

\* publish: one call of build_mausoleum_sheet
build_sheet(from, to, product_family) ==
    /\ pc = from
    /\ pc' = to
    /\ out_wb' = out_wb \o build_mausoleum_sheet(product_family, lib, mv, b7, b8, bt)
    /\ UNCHANGED <<pricingVars, pairVars, bootstrapVars, bucketVars, headers,
                   raised, output_exists, output_xlsx, published, runs, cmd>>
    /\ UNCHANGED inventoryVars

build_sheet_mv_upper ==
    build_sheet("buckets", "sheet_mv_upper", "Mountain View - Upper Level")

build_sheet_mv_lower ==
    build_sheet("sheet_mv_upper", "sheet_mv_lower", "Mountain View - Lower Level")

build_sheet_b7 ==
    build_sheet("sheet_mv_lower", "sheet_b7", "Building 7 Mausoleum")

build_sheet_b8 ==
    build_sheet("sheet_b7", "sheet_b8", "Building 8 Mausoleum")

build_sheet_bt ==
    build_sheet("sheet_b8", "sheet_bt", "Bell Tower Mausoleum")

\* out_wb.save(OUTPUT_XLSX); the history records the run
publish_save ==
    /\ pc = "sheet_bt"
    /\ pc' = "published"
    /\ output_exists' = TRUE
    /\ output_xlsx' = out_wb
    /\ published' = published \cup
           {[run |-> runs, lib |-> lib, facts_xlsm |-> facts_xlsm,
             headers |-> headers, output |-> out_wb]}
    /\ UNCHANGED <<pricingVars, pairVars, bootstrapVars, bucketVars, headers,
                   raised, out_wb, runs, cmd>>
    /\ UNCHANGED inventoryVars

\* the operator replaces the FaCTS export
operator_replaces_export ==
    /\ pc \in Prompt
    /\ pc' = "cli"
    /\ facts_xlsm' \in Exports
    /\ headers' \in HeaderRows
    /\ UNCHANGED <<pricingVars, pairVars, bootstrapVars, facts, inv, mv, b7,
                   b8, bt, raised, out_wb, output_exists, output_xlsx,
                   published, runs, cmd>>
    /\ UNCHANGED inventoryVars

\* the operator edits BasePriceLocked of the third record of the library
operator_edits_library ==
    /\ pc \in Prompt
    /\ library_exists
    /\ \E v \in LockedEdits :
           lib' = [lib EXCEPT ![3].base_price_locked_crypt = v]
    /\ pc' = "cli"
    /\ UNCHANGED <<all_rows, library_exists, pricingVars, pairVars,
                   bucketVars, publishVars>>
    /\ UNCHANGED inventoryVars

Next ==
    \/ cli_bootstrap
    \/ cli_publish
    \/ publish_load_facts
    \/ mv_buckets_rows
    \/ mv_buckets_groups
    \/ b7_buckets_rows
    \/ b7_buckets_groups
    \/ b8_buckets_rows
    \/ b8_buckets_groups
    \/ bt_buckets_rows
    \/ bt_buckets_groups
    \/ build_sheet_mv_upper
    \/ build_sheet_mv_lower
    \/ build_sheet_b7
    \/ build_sheet_b8
    \/ build_sheet_bt
    \/ publish_save
    \/ operator_replaces_export
    \/ operator_edits_library

Spec == Init /\ [][Next]_vars

\* the output row j is the row written for the library record r
RowOf(out, j, r) ==
    /\ out[j].sheet = r.product_family
    /\ out[j].group = r.group
    /\ out[j].theme = r.theme
    /\ out[j].option = r.option

\* the record r has no bucket: the key publish looks up for it - (band,
\* elevation, theme, option) in mv for a Mountain View record, (theme,
\* option) in the map of its building otherwise, with the Single bucket of
\* the theme standing for a Companion record of a building - is not there
HasNoBucket(r) ==
    LET gto == <<r.group, r.theme, r.option>> IN
    IF starts_with(r.product_family, "Mountain View")
    THEN mv_key(r.product_family, gto) \notin DOMAIN mv
    ELSE building_key(gto) \notin
             DOMAIN (IF r.product_family = "Building 7 Mausoleum" THEN b7
                     ELSE IF r.product_family = "Building 8 Mausoleum" THEN b8
                     ELSE bt)

CommandStep == runs' # runs \/ pc \notin Prompt

\* C14: base prices are set once: once price_library.xlsx exists, no step of
\* a bootstrap or publish command changes its contents or removes it,
\* whatever the operator edited before; a bootstrap command on an existing
\* library changes no file.
C14_BasePricesSetOnce ==
    [][/\ (library_exists /\ CommandStep)
           => (library_exists' /\ lib' = lib)
       /\ (library_exists /\ CommandStep /\ pc' = "bootstrap")
           => UNCHANGED <<lib, facts_xlsm, headers, output_exists, output_xlsx>>
      ]_vars

\* a bootstrap command has just run on a library the operator had edited,
\* and the edit is still there
C14_Witness ==
    /\ pc = "bootstrap"
    /\ runs >= 2
    /\ library_exists
    /\ lib[3].base_price_locked_crypt = 1700
    /\ lib # price_library(all_rows)

\* a step of a publish command
PublishStep == cmd' = "publish" /\ CommandStep

\* C15 as stated: no step of publish writes the price library, in any
\* reachable state, the state without a price library included.
C15_PublishNeverWritesLibrary ==
    [][PublishStep => (lib' = lib /\ library_exists' = library_exists)]_vars

\* C15, amended: publish never changes a price library that exists; it writes
\* the library in one case only, at its first step when the library does not
\* exist, where it creates it as bootstrap does, and it only reads it after.
C15_PublishWritesOnlyMissingLibrary ==
    [][PublishStep
       => /\ library_exists => (library_exists' /\ lib' = lib)
          /\ (lib' # lib \/ library_exists' # library_exists)
                => /\ ~library_exists
                   /\ pc \in Prompt
                   /\ library_exists'
                   /\ lib' = price_library(all_rows)
      ]_vars

\* the first command was publish and it left a library behind
C15_Witness ==
    /\ pc = "published"
    /\ runs = 1
    /\ cmd = "publish"
    /\ library_exists
    /\ lib = price_library(all_rows)

\* C16: publish is deterministic in its inputs: any two publish runs that
\* read the same inventory export and the same price library wrote the same
\* output rows (prices and availability), whatever runs came before them
\* and whatever inventory those saw.
C16_PublishDeterministic ==
    \A a, b \in published :
       (/\ a.lib = b.lib
        /\ a.facts_xlsm = b.facts_xlsm
        /\ a.headers = b.headers)
       => a.output = b.output

\* three publish runs: the first and the third read the same export, with
\* a tier of scarcity in it, the second read another one
C16_Witness ==
    /\ pc = "published"
    /\ \E a, b, c \in published :
          /\ a.run = 1 /\ b.run = 2 /\ c.run = 3
          /\ a.lib = c.lib /\ a.facts_xlsm = c.facts_xlsm
          /\ b.facts_xlsm # a.facts_xlsm
          /\ b.output # a.output
          /\ a.output = c.output
          /\ Len(a.facts_xlsm) = 3
          /\ a.facts_xlsm[1].Status = "Sold"

\* the bucket publish looks up for the library record r
BucketFor(r) ==
    LET gto == <<r.group, r.theme, r.option>> IN
    IF starts_with(r.product_family, "Mountain View")
    THEN bucket_get(mv, mv_key(r.product_family, gto))
    ELSE bucket_get(IF r.product_family = "Building 7 Mausoleum" THEN b7
                    ELSE IF r.product_family = "Building 8 Mausoleum" THEN b8
                    ELSE bt,
                    building_key(gto))

\* p is the price of the locked base price base at the sold fraction
\* (total - avail) / total of the bucket b (0 for a bucket without units)
PriceAtSoldFraction(p, base, b) ==
    IF base = NaN THEN p = NaN
    ELSE IF b.total = 0 \/ 100 * (b.total - b.avail) < 90 * b.total THEN p = base
    ELSE IF 100 * (b.total - b.avail) < 97 * b.total
         THEN SmallestMultipleOf995Geq(p, base, 115)
         ELSE SmallestMultipleOf995Geq(p, base, 120)

\* C17: no compounding: in every publish run of a sequence of runs, each
\* published crypt and front price is the price of the locked base price of
\* the library at the sold fraction of the current snapshot; a price that an
\* earlier run published is never the base, so a record that was uplifted
\* in one run is back at its locked base price in a later run whose sold
\* fraction is below 0.90.
C17_NoCompounding ==
    pc = "published"
    => \A j \in 1..Len(output_xlsx) :
          \A i \in 1..Len(lib) :
             RowOf(output_xlsx, j, lib[i])
             => /\ PriceAtSoldFraction(output_xlsx[j].crypt,
                                       lib[i].base_price_locked_crypt,
                                       BucketFor(lib[i]))
                /\ PriceAtSoldFraction(output_xlsx[j].front,
                                       lib[i].base_price_locked_front,
                                       BucketFor(lib[i]))

\* the Building 7 record, locked at 1700, was published at 1990 in the first
\* run (nine units of ten sold) and is published at 1700 in the second run
\* (its unit is available)
C17_Witness ==
    /\ pc = "published"
    /\ lib[3].base_price_locked_crypt = 1700
    /\ \E a \in published :
          /\ a.run < runs
          /\ a.lib = lib
          /\ Len(a.facts_xlsm) = 10
          /\ a.output[3].crypt = 1990
    /\ Len(facts_xlsm) = 3
    /\ b7[<<"A (Prayer)", "Single">>].avail = 1
    /\ output_xlsx[3].crypt = 1700

\* the required columns that no header cell of the export names
MissingColumns ==
    {c \in {"Location", "Section", "Status", "Space", "Sales Item"} :
        \A h \in headers : strip(collapse_blanks(h)) # c}

\* C18: when the FaCTS export lacks required columns, load_facts raises an
\* error whose message names the missing columns and no other required
\* column, and publish ends there: the output workbook is not written and
\* no row of it has been built.
C18_MissingColumnsFailFast ==
    [][(pc = "start" /\ MissingColumns # {})
       => /\ pc' = "ValueError"
          /\ starts_with(raised', "FaCTS export is missing required columns: ")
          /\ \A c \in {"Location", "Section", "Status", "Space", "Sales Item"} :
                contains(raised', c) <=> c \in MissingColumns
          /\ out_wb' = <<>>
          /\ UNCHANGED <<output_exists, output_xlsx>>
      ]_vars

\* publish ended on an export without Status and Sales Item; the workbook of
\* the run before it is still the output
C18_Witness ==
    /\ pc = "ValueError"
    /\ raised = "FaCTS export is missing required columns: Sales Item, Status"
    /\ runs = 2
    /\ output_exists
    /\ \E a \in published : a.run = 1 /\ a.output = output_xlsx /\ a.output # <<>>

\* the Space of the unit r does not match the pattern of its section
Unparseable(r) ==
    IF lower(strip(r.Section)) = "mountain view"
    THEN \A i \in 1..Len(r.Space) : ~MV_CRYPT_RE_at(r.Space, i)
    ELSE IF strip(r.Section) \in {"Last Supper Maus Bldg 7", "Last Supper Maus Bldg 8"}
    THEN \A i \in 1..Len(r.Space) : ~LS_CRYPT_RE_at(r.Space, i)
    ELSE IF strip(r.Section) = "Bell Tower Mausoleum"
    THEN \A i \in 1..Len(r.Space) : ~BT_CRYPT_RE_at(r.Space, i)
    ELSE FALSE

\* the export without its unparseable units
ParseableUnits == SelectSeq(facts_xlsm, LAMBDA r : ~Unparseable(r))

\* C19: a unit whose Space does not match the pattern of its section is
\* skipped without an error: every bucket map (Single, Tandem and Companion
\* buckets) is the one computed from the export without that unit.
C19_UnparseableSkipped ==
    pc = "buckets"
    => LET fs == load_facts(ParseableUnits) IN
       /\ mv = mv_buckets(fs)
       /\ b7 = building_buckets_simple_by_row(fs, "Last Supper Maus Bldg 7", "LS", FALSE)
       /\ b8 = building_buckets_simple_by_row(fs, "Last Supper Maus Bldg 8", "LS", FALSE)
       /\ bt = building_buckets_simple_by_row(fs, "Bell Tower Mausoleum", "BT", TRUE)

\* an available Mountain View unit whose Level is E, which the pattern does
\* not admit, next to a sold unit of Level D: the bucket counts one unit
C19_Witness ==
    /\ pc = "buckets"
    /\ Len(facts_xlsm) = 2
    /\ facts_xlsm[1].Section = "Mountain View"
    /\ facts_xlsm[1].Space[10] = "E"
    /\ facts_xlsm[1].Status = "Available"
    /\ facts_xlsm[2].Space = MVSpace("Upper", "1", "D", "1")
    /\ facts_xlsm[2].Status = "Sold"
    /\ facts_xlsm[2].Location # None
    /\ DOMAIN mv = {<<"Upper Level", 1, "D - Touch", "Single">>,
                    <<"Upper Level", 1, "D - Touch", "Companion">>}
    /\ mv[<<"Upper Level", 1, "D - Touch", "Single">>].total = 1
    /\ mv[<<"Upper Level", 1, "D - Touch", "Single">>].avail = 0

\* C20 as stated: for every base_price_locked <= 0 and every sold fraction
\* in [0, 1], final_price_from_base returns 0.
C20_NonPositiveBaseGivesZero ==
    (/\ pc = "final_price_from_base"
     /\ arg <= 0
     /\ 0 <= sold_pct[1] /\ sold_pct[1] <= sold_pct[2])
    => ret = 0

\* C20, amended: for every base_price_locked <= 0, final_price_from_base
\* returns 0 when the sold fraction is in [0.90, 1], and returns the base
\* price itself, unchanged, when the sold fraction is in [0, 0.90): 0 for a
\* base price 0 and the negative base price otherwise.
C20_NonPositiveBase ==
    (/\ pc = "final_price_from_base"
     /\ arg <= 0
     /\ 0 <= sold_pct[1] /\ sold_pct[1] <= sold_pct[2])
    => IF 100 * sold_pct[1] >= 90 * sold_pct[2] THEN ret = 0 ELSE ret = arg

C20_Witness ==
    /\ pc = "final_price_from_base"
    /\ arg = -1000
    /\ sold_pct = <<9, 10>>
    /\ ret = 0

----------------------------------------------------------------------------
(* The Availability column.                                                *)

IsSoldOut(cell) == cell[1] = "str" /\ cell[2] = "Sold Out"
IsCount(cell, n) == cell[1] = "int" /\ cell[2] = n

\* the cell is the text "Sold Out" or a strictly positive integer
AvailabilityValue(cell) ==
    \/ IsSoldOut(cell)
    \/ cell[1] = "int" /\ cell[2] \in Nat \ {0}

\* C21: every Availability value written by publish is an integer count or
\* the text "Sold Out": it is "Sold Out" exactly when the available count of
\* the bucket publish looks up is 0 (a missing bucket counts as 0), and it
\* is that count, strictly positive, otherwise; 0 and negative numbers are
\* never written, in the sheets under construction and in the saved workbook.
C21_AvailabilityValues ==
    /\ \A j \in 1..Len(out_wb) : AvailabilityValue(out_wb[j].availability)
    /\ \A j \in 1..Len(output_xlsx) :
          AvailabilityValue(output_xlsx[j].availability)
    /\ pc = "published"
       => \A j \in 1..Len(output_xlsx) :
             \A i \in 1..Len(lib) :
                RowOf(output_xlsx, j, lib[i])
                => LET avail == BucketFor(lib[i]).avail
                       cell == output_xlsx[j].availability
                   IN  /\ IsSoldOut(cell) <=> avail = 0
                       /\ avail # 0 => (avail > 0 /\ IsCount(cell, avail))

\* the Building 7 record was written "Sold Out" by a run whose export lists
\* its unit as sold (a bucket with no available unit), and is written with
\* the count 1 by the current run, next to the Mountain View count 2
C21_Witness ==
    /\ pc = "published"
    /\ \E a \in published :
          /\ a.run < runs
          /\ Len(a.facts_xlsm) = 3
          /\ a.facts_xlsm[3].Status = "Sold"
          /\ Len(a.output) = 6
          /\ IsSoldOut(a.output[3].availability)
    /\ Len(output_xlsx) = 6
    /\ <<"A (Prayer)", "Single">> \in DOMAIN b7
    /\ b7[<<"A (Prayer)", "Single">>].avail = 1
    /\ IsCount(output_xlsx[3].availability, 1)
    /\ IsCount(output_xlsx[1].availability, 2)
    /\ IsSoldOut(output_xlsx[5].availability)

----------------------------------------------------------------------------
(* pricebook_generator_v1: publish.  The loader and the buckets are those  *)
(* of pricebook_generator; the text columns of the library are normalized  *)
(* when it is read, the themes of a building sheet are those of the        *)
(* library, and a Companion row of a building is always "Sold Out".  The   *)
(* en dash is written "-" in this module, the em dash is written "=".      *)

\* s.replace(k, v) for k, v in DASH_CHARS: every dash becomes the en dash
RECURSIVE replace_dashes(_)
replace_dashes(s) ==
    IF Len(s) <= 1 THEN (IF s = "=" THEN "-" ELSE s)
    ELSE replace_dashes(SubSeq(s, 1, Len(s) \div 2))
             \o replace_dashes(SubSeq(s, Len(s) \div 2 + 1, Len(s)))

\* norm_text: strip, unify the dashes, collapse the runs of blanks
norm_text(x) ==
    IF x = None THEN "" ELSE collapse_blanks(replace_dashes(strip(x)))

\* norm_text of a cell read by pd.read_excel: an empty cell is NaN there,
\* and str(nan) is "nan"
norm_cell(x) == IF x = None THEN "nan" ELSE norm_text(x)

\* lib[col] = lib[col].apply(norm_text) for the four key columns
v1_normalize(df) ==
    [i \in 1..Len(df) |->
        [df[i] EXCEPT !.product_family = norm_cell(@), !.group = norm_cell(@),
                      !.theme = norm_cell(@), !.option = norm_cell(@)]]

\* df["theme"].dropna().unique(), in the order of first appearance
RECURSIVE v1_unique_themes(_, _, _)
v1_unique_themes(df, I, seen) ==
    IF I = {} THEN <<>>
    ELSE LET i == CHOOSE a \in I : \A b \in I : a <= b
             t == df[i].theme
         IN  IF t = None \/ t \in seen THEN v1_unique_themes(df, I \ {i}, seen)
             ELSE <<t>> \o v1_unique_themes(df, I \ {i}, seen \cup {t})

theme_rank == [c \in {"E", "D", "C", "B", "A"} |->
                  IF c = "E" THEN 0 ELSE IF c = "D" THEN 1 ELSE IF c = "C" THEN 2
                  ELSE IF c = "B" THEN 3 ELSE 4]

\* theme_key: (0, rank) for a theme that begins with a letter A-E standing
\* alone (r"^([A-E])\b"), (1, 9) for the others, as one number (the themes of
\* a sheet of this model have distinct keys, the text never decides)
theme_key(t) ==
    IF /\ Len(t) >= 1
       /\ CharAt(t, 1) \in DOMAIN theme_rank
       /\ \/ Len(t) = 1
          \/ ~(is_alpha(CharAt(t, 2)) \/ is_digit(CharAt(t, 2)) \/ CharAt(t, 2) = "_")
    THEN theme_rank[CharAt(t, 1)]
    ELSE 19

\* themes = sorted(themes, key=theme_key)
v1_themes(df, I) ==
    LET ts == v1_unique_themes(df, I, {})
        kts == [j \in 1..Len(ts) |-> <<theme_key(ts[j]), ts[j]>>]
        srt == sorted_by_key(kts)
    IN  [j \in 1..Len(srt) |-> srt[j][2]]

\* row_match: group and theme are compared after norm_text
v1_row_match(df, I, gto) ==
    {i \in I : /\ df[i].group = norm_text(gto[1])
               /\ df[i].theme = norm_text(gto[2])
               /\ df[i].option = gto[3]}

\* the values handed to write_data_row
v1_data_row(family, rowi, sold, availability) ==
    LET crypt == price_cell(rowi.base_price_locked_crypt, sold)
        front == price_cell(rowi.base_price_locked_front, sold)
    IN  [sheet |-> family, group |-> rowi.group, theme |-> rowi.theme,
         theme_label |-> IF rowi.option = "Single" THEN rowi.theme ELSE None,
         option |-> rowi.option,
         crypt |-> crypt,
         front |-> front,
         total |-> IF crypt # NaN /\ front # NaN THEN crypt + front ELSE NaN,
         availability |-> availability]

\* a Mountain View row: the bucket of (band, elev, theme, opt)
v1_mv_row(family, rowi, gto, mvb) ==
    LET b == bucket_get(mvb, mv_key(family, gto))
    IN  v1_data_row(family, rowi, b.sold_pct, availability_cell(b.avail))

\* a building row that shows the count of the Single bucket on a Companion row
v1_building_row_single_count(family, rowi, gto, bucket_map) ==
    LET b == bucket_get(bucket_map, <<norm_text(gto[2]),
                            IF gto[3] = "Companion" THEN "Single" ELSE gto[3]>>)
    IN  v1_data_row(family, rowi, b.sold_pct, availability_cell(b.avail))

\* a building row: a Companion row takes the sold fraction of the Single
\* bucket of the theme and is "Sold Out", the others take their own bucket
v1_building_row(family, rowi, gto, bucket_map) ==
    IF gto[3] = "Companion"
    THEN LET b == bucket_get(bucket_map, <<norm_text(gto[2]), "Single">>)
         IN  v1_data_row(family, rowi, b.sold_pct, CellStr("Sold Out"))
    ELSE LET b == bucket_get(bucket_map, <<norm_text(gto[2]), gto[3]>>)
         IN  v1_data_row(family, rowi, b.sold_pct, availability_cell(b.avail))

\* a writer that leaves out the rows without an available unit
v1_write_data_row_if_available(values) ==
    IF values.availability[1] = "str" THEN <<>> ELSE <<values>>

\* write_data_row(ws, r, values, ...); r += 1: one more row on the sheet
v1_write_data_row(values) == <<values>>

\* the data rows written by the loops, for the triples gtos in loop order
RECURSIVE v1_sheet_rows(_, _, _, _, _, _)
v1_sheet_rows(family, df, I, gtos, bucket_map, is_mv) ==
    IF gtos = <<>> THEN <<>>
    ELSE LET gto == Head(gtos)
             m == v1_row_match(df, I, gto)
         IN  (IF Cardinality(m) # 1 THEN <<>>
              ELSE LET rowi == df[CHOOSE i \in m : TRUE] IN
                   v1_write_data_row(
                       IF is_mv THEN v1_mv_row(family, rowi, gto, bucket_map)
                       ELSE v1_building_row(family, rowi, gto, bucket_map)))
             \o v1_sheet_rows(family, df, I, Tail(gtos), bucket_map, is_mv)

\* build_sheet(product_family, ...): the data rows of the sheet
v1_build_sheet(product_family, df, mvb, b7b, b8b, btb) ==
    LET I == {i \in 1..Len(df) : df[i].product_family = norm_text(product_family)} IN
    IF starts_with(product_family, "Mountain View")
    THEN v1_sheet_rows(product_family, df, I,
                       loop_order(elevs(df, I), theme_order_mv,
                                  <<"Single", "Companion">>),
                       mvb, TRUE)
    ELSE v1_sheet_rows(product_family, df, I,
                       loop_order(sorted_groups(df, I), v1_themes(df, I),
                                  <<"Single", "Tandem", "Companion">>),
                       IF product_family = "Building 7 Mausoleum" THEN b7b
                       ELSE IF product_family = "Building 8 Mausoleum" THEN b8b
                       ELSE IF product_family = "Bell Tower Mausoleum" THEN btb
                       ELSE <<>>,
                       FALSE)

\* price libraries on disk: the one bootstrap writes, the same with a
\* BasePriceLocked typed in by the operator, and the same with a theme cell
\* that carries stray blanks
LibrariesV1 ==
    {price_library(MasterListing),
     [price_library(MasterListing) EXCEPT ![3].base_price_locked_crypt = 1700],
     [price_library(MasterListing) EXCEPT ![5].theme = "B  (Heart) "]}

\* exports of the v1 runs: those of Exports, and one in which the units of
\* Building 7 and Building 8 are available and the Bell Tower unit is sold
ExportsV1 ==
    Exports \cup
    {<<B7Unit("1A", "Available"), B7Unit("2A", "Available"),
       Row("Harpeth Hills", "Last Supper Maus Bldg 8", "Available",
           LSSpace("8", "3B"), "Single Crypt"),
       Row("Harpeth Hills", "Bell Tower Mausoleum", "Sold",
           BTSpace("2E"), "Tandem Crypt")>>}

\* publish is invoked on an existing library
InitV1 ==
    /\ pc = "start"
    /\ all_rows = MasterListing
    /\ library_exists = TRUE
    /\ lib \in LibrariesV1
    /\ facts_xlsm \in ExportsV1
    /\ headers = required_columns
    /\ NoBuckets
    /\ raised = ""
    /\ out_wb = <<>>
    /\ output_exists = FALSE
    /\ output_xlsx = <<>>
    /\ published = {}
    /\ runs = 1
    /\ cmd = "publish"
    /\ IdlePricing /\ IdlePairs
    /\ IdleInventory

\* publish: one call of build_sheet
v1_build(from, to, product_family) ==
    /\ pc = from
    /\ pc' = to
    /\ out_wb' = out_wb \o v1_build_sheet(product_family, v1_normalize(lib), mv, b7, b8, bt)
    /\ UNCHANGED <<pricingVars, pairVars, bootstrapVars, bucketVars, headers,
                   raised, output_exists, output_xlsx, published, runs, cmd>>
    /\ UNCHANGED inventoryVars

v1_build_mv_upper ==
    v1_build("buckets", "sheet_mv_upper", "Mountain View - Upper Level")

v1_build_mv_lower ==
    v1_build("sheet_mv_upper", "sheet_mv_lower", "Mountain View - Lower Level")

v1_build_b7 ==
    v1_build("sheet_mv_lower", "sheet_b7", "Building 7 Mausoleum")

v1_build_b8 ==
    v1_build("sheet_b7", "sheet_b8", "Building 8 Mausoleum")

v1_build_bt ==
    v1_build("sheet_b8", "sheet_bt", "Bell Tower Mausoleum")

NextV1 ==
    \/ publish_load_facts
    \/ mv_buckets_rows
    \/ mv_buckets_groups
    \/ b7_buckets_rows
    \/ b7_buckets_groups
    \/ b8_buckets_rows
    \/ b8_buckets_groups
    \/ bt_buckets_rows
    \/ bt_buckets_groups
    \/ v1_build_mv_upper
    \/ v1_build_mv_lower
    \/ v1_build_b7
    \/ v1_build_b8
    \/ v1_build_bt
    \/ publish_save

SpecV1 == InitV1 /\ [][NextV1]_vars

\* the families publish builds a sheet for
PublishedFamilies ==
    {"Mountain View - Upper Level", "Mountain View - Lower Level",
     "Building 7 Mausoleum", "Building 8 Mausoleum", "Bell Tower Mausoleum"}

\* C22: sold-out rows always print: in pricebook_generator_v1 publish, every
\* record of the price library whose family has a sheet is written as one
\* output row with its computed prices, also when the available count of
\* its bucket is 0 or the bucket is missing (its availability is then "Sold
\* Out"); no record is left out because it is sold out.  The libraries are
\* those bootstrap writes from a master listing whose tables list each
\* group, theme and option once, in the layout of the sheets.
C22_SoldOutRowsPrint ==
    pc = "published"
    => LET df == v1_normalize(lib) IN
       \A i \in 1..Len(df) :
          df[i].product_family \in PublishedFamilies
          => /\ Cardinality({j \in 1..Len(output_xlsx) :
                                RowOf(output_xlsx, j, df[i])}) = 1
             /\ \A j \in 1..Len(output_xlsx) :
                   RowOf(output_xlsx, j, df[i])
                   => /\ PriceAtSoldFraction(output_xlsx[j].crypt,
                                             df[i].base_price_locked_crypt,
                                             BucketFor(df[i]))
                      /\ PriceAtSoldFraction(output_xlsx[j].front,
                                             df[i].base_price_locked_front,
                                             BucketFor(df[i]))
                      /\ BucketFor(df[i]).avail = 0
                            => IsSoldOut(output_xlsx[j].availability)

\* both Mountain View crypts are sold: the Single record is printed, "Sold
\* Out", at 2985 (its locked base price 1990 uplifted by 20%), and so are
\* the five other records
C22_Witness ==
    /\ pc = "published"
    /\ <<"Upper Level", 1, "D - Touch", "Single">> \in DOMAIN mv
    /\ mv[<<"Upper Level", 1, "D - Touch", "Single">>].avail = 0
    /\ mv[<<"Upper Level", 1, "D - Touch", "Single">>].total = 2
    /\ Len(output_xlsx) = 6
    /\ output_xlsx[1].sheet = "Mountain View - Upper Level"
    /\ output_xlsx[1].option = "Single"
    /\ output_xlsx[1].crypt = 2985
    /\ IsSoldOut(output_xlsx[1].availability)

----------------------------------------------------------------------------
(* The locked base prices of a new library.                                *)

\* the locked price l of the baseline b: the smallest multiple of 995 that
\* is at least b * 1.05, positive for a positive baseline; empty for an empty
\* baseline
LockedFromBaseline(l, b) ==
    IF b = NaN THEN l = NaN
    ELSE /\ l # NaN
         /\ SmallestMultipleOf995Geq(l, b, 105)
         /\ b > 0 => (l > 0 /\ l % 995 = 0)

\* C23: bootstrap initializes each of base_price_locked_crypt, _front and
\* _total of every record to the smallest multiple of 995 that is at least
\* 1.05 times the baseline_2025 value of the library (the filled-in one for
\* a Companion record or a total), a positive multiple of 995 for a positive
\* baseline, and leaves it empty when the baseline is missing.
C23_LockedFromBaseline ==
    (pc = "bootstrap" /\ library_exists)
    => \A i \in 1..Len(lib) :
          /\ LockedFromBaseline(lib[i].base_price_locked_crypt,
                                lib[i].baseline_2025_crypt)
          /\ LockedFromBaseline(lib[i].base_price_locked_front,
                                lib[i].baseline_2025_front)
          /\ LockedFromBaseline(lib[i].base_price_locked_total,
                                lib[i].baseline_2025_total)

\* a library with a record whose crypt baseline 1247 is locked at 1990 and
\* whose total 1642 is locked at 1990, and a record without a front
\* baseline, whose locked front and total are empty
C23_Witness ==
    /\ pc = "bootstrap"
    /\ library_exists
    /\ Len(lib) = 2
    /\ lib[1].baseline_2025_crypt = 1247
    /\ lib[1].base_price_locked_crypt = 1990
    /\ lib[1].baseline_2025_front = 395
    /\ lib[1].base_price_locked_front = 995
    /\ lib[1].baseline_2025_total = 1642
    /\ lib[1].base_price_locked_total = 1990
    /\ lib[2].baseline_2025_crypt = 1000
    /\ lib[2].baseline_2025_front = NaN
    /\ lib[2].base_price_locked_front = NaN
    /\ lib[2].base_price_locked_total = NaN

\* C24: in pricebook_generator_v1 publish, a Companion row of Building 7,
\* Building 8 or Bell Tower is always written "Sold Out", never with the
\* available count of the Single bucket, and its prices are those of its
\* locked base prices at the sold fraction of the Single bucket of its
\* theme (0 when that bucket is missing).
C24_BuildingCompanionSoldOut ==
    pc = "published"
    => LET df == v1_normalize(lib) IN
       \A i \in 1..Len(df) :
          (/\ df[i].option = "Companion"
           /\ df[i].product_family \in {"Building 7 Mausoleum",
                  "Building 8 Mausoleum", "Bell Tower Mausoleum"})
          => LET bucket_map == IF df[i].product_family = "Building 7 Mausoleum" THEN b7
                               ELSE IF df[i].product_family = "Building 8 Mausoleum" THEN b8
                               ELSE bt
                 single == bucket_get(bucket_map, <<df[i].theme, "Single">>)
             IN  /\ \E j \in 1..Len(output_xlsx) : RowOf(output_xlsx, j, df[i])
                 /\ \A j \in 1..Len(output_xlsx) :
                       RowOf(output_xlsx, j, df[i])
                       => /\ IsSoldOut(output_xlsx[j].availability)
                          /\ PriceAtSoldFraction(output_xlsx[j].crypt,
                                 df[i].base_price_locked_crypt, single)
                          /\ PriceAtSoldFraction(output_xlsx[j].front,
                                 df[i].base_price_locked_front, single)

\* nine of the ten Single units of row A of Building 7 are sold: the Single
\* row shows the count 1, the Companion row is "Sold Out" and its prices
\* carry the 15% uplift of the Single bucket (3980 -> 4975, 995 -> 1990)
C24_Witness ==
    /\ pc = "published"
    /\ <<"A (Prayer)", "Single">> \in DOMAIN b7
    /\ b7[<<"A (Prayer)", "Single">>].avail = 1
    /\ b7[<<"A (Prayer)", "Single">>].total = 10
    /\ Len(output_xlsx) = 6
    /\ output_xlsx[3].sheet = "Building 7 Mausoleum"
    /\ output_xlsx[3].option = "Single"
    /\ IsCount(output_xlsx[3].availability, 1)
    /\ output_xlsx[4].sheet = "Building 7 Mausoleum"
    /\ output_xlsx[4].option = "Companion"
    /\ IsSoldOut(output_xlsx[4].availability)
    /\ lib[4].base_price_locked_crypt = 3980
    /\ output_xlsx[4].crypt = 4975
    /\ output_xlsx[4].front = 1990

----------------------------------------------------------------------------
(* The Total column.                                                       *)

\* C28: on every published row, Total is the sum of the published crypt
\* price and the published front price of the row, each uplifted and rounded
\* on its own, and it is empty exactly when one of the two locked base
\* prices of the record is missing; base_price_locked_total is not used, so
\* Total = Crypt + Crypt Front on every row that has a Total.
C28_TotalIsSum ==
    /\ \A j \in 1..Len(out_wb) :
          IF out_wb[j].crypt # NaN /\ out_wb[j].front # NaN
          THEN out_wb[j].total = out_wb[j].crypt + out_wb[j].front
          ELSE out_wb[j].total = NaN
    /\ pc = "published"
       => \A j \in 1..Len(output_xlsx) :
             /\ IF output_xlsx[j].crypt # NaN /\ output_xlsx[j].front # NaN
                THEN output_xlsx[j].total
                         = output_xlsx[j].crypt + output_xlsx[j].front
                ELSE output_xlsx[j].total = NaN
             /\ \A i \in 1..Len(lib) :
                   RowOf(output_xlsx, j, lib[i])
                   => (output_xlsx[j].total = NaN
                          <=> \/ lib[i].base_price_locked_crypt = NaN
                              \/ lib[i].base_price_locked_front = NaN)

\* nine of ten units of Building 7 are sold: the Single row has the Total
\* 2985 + 1990 = 4975 while its base_price_locked_total, 1990, would be
\* priced at 2985; the Building 8 row, without a locked front price, has no
\* Total
C28_Witness ==
    /\ pc = "published"
    /\ Len(facts_xlsm) = 10
    /\ Len(output_xlsx) = 6
    /\ lib[3].base_price_locked_crypt = 1990
    /\ lib[3].base_price_locked_total = 1990
    /\ output_xlsx[3].crypt = 2985
    /\ output_xlsx[3].front = 1990
    /\ output_xlsx[3].total = 4975
    /\ lib[5].base_price_locked_front = NaN
    /\ output_xlsx[5].crypt # NaN
    /\ output_xlsx[5].total = NaN

----------------------------------------------------------------------------
(* Bounds of the Companion bucket.                                         *)

\* C29: the available crypt numbers of a group never have more adjacent
\* pairs than all the crypt numbers of the group - no subset of the crypt
\* numbers has - and twice the available pairs never exceed the available
\* count of the Single bucket of the group; every Companion bucket has
\* 0 <= avail <= total and a sold fraction between 0 and 1.
C29_CompanionBounds ==
    pc = "mv"
    => LET rows == mv_rows(load_facts(facts_xlsm)) IN
       \A k \in DOMAIN mv :
          k[4] = "Companion"
          => LET I == SinglesOfGroup(rows, k)
                 all_nums == {rows[i].crypt : i \in I}
                 b == mv[k]
                 single == mv[<<k[1], k[2], k[3], "Single">>]
             IN  /\ \A av_nums \in SUBSET all_nums :
                       count_adjacent_pairs(Sorted(av_nums))
                           <= count_adjacent_pairs(Sorted(all_nums))
                 /\ 0 <= b.avail /\ b.avail <= b.total
                 /\ 2 * b.avail <= single.avail
                 /\ 2 * b.total <= single.total
                 /\ RGeq(b.sold_pct, RInt(0))
                 /\ RLeq(b.sold_pct, RInt(1))

\* crypts 1..4 listed, crypt 4 sold: two pairs in all, the available crypts
\* 1, 2, 3 hold one pair, and the sold fraction of the pairs is 1/2
C29_Witness ==
    /\ pc = "mv"
    /\ Len(facts_xlsm) = 4
    /\ facts_xlsm[4].Status = "Sold"
    /\ \A i \in {1, 2, 3} : facts_xlsm[i].Status = "Available"
    /\ mv[<<"Upper Level", 1, "D - Touch", "Single">>].avail = 3
    /\ mv[<<"Upper Level", 1, "D - Touch", "Companion">>].total = 2
    /\ mv[<<"Upper Level", 1, "D - Touch", "Companion">>].avail = 1
    /\ REq(mv[<<"Upper Level", 1, "D - Touch", "Companion">>].sold_pct, Rat(1, 2))

----------------------------------------------------------------------------
(* Monotonicity of the price in the sold fraction.                         *)

\* C30: for a positive integer base price, final_price_from_base is never
\* below the base and does not decrease when the sold fraction grows: it is
\* the base below 0.90, and the price of the tier [0.90, 0.97) is at most
\* the price of the tier [0.97, 1]; whenever an uplift applies, the price is
\* a positive multiple of 995 strictly greater than the base.
C30_MonotoneInSoldFraction ==
    (pc = "final_price_from_base" /\ arg > 0)
    => /\ ret >= arg
       /\ RLt(sold_pct, TIER1_SOLD) => ret = arg
       /\ RGeq(sold_pct, TIER1_SOLD)
             => (ret > arg /\ ret > 0 /\ ret % 995 = 0)
       /\ \A g \in SoldFractions :
             /\ RGeq(g, sold_pct) => final_price_from_base(arg, g) >= ret
             /\ RLeq(g, sold_pct) => final_price_from_base(arg, g) <= ret

\* the base 6000 is priced 6965 at 9/10 sold, 7960 at 97/100 and 6000 at
\* 89/100
C30_Witness ==
    /\ pc = "final_price_from_base"
    /\ arg = 6000
    /\ REq(sold_pct, Rat(9, 10))
    /\ ret = 6965
    /\ final_price_from_base(arg, Rat(97, 100)) = 7960
    /\ final_price_from_base(arg, Rat(89, 100)) = 6000

----------------------------------------------------------------------------
(* The inventory-update scripts: update_inventory.py and update_v32.py.    *)
(* An inventory record holds the cells of the columns the script reads:    *)
(* Garden, Row and Status.  A result or a cell of the price book is a      *)
(* tagged value: <<"int", n>>, <<"float", <<n, d>>>>, <<"str", s>> or the  *)
(* empty value <<"None", "">>.                                             *)

CellFloat(x) == <<"float", x>>

\* sub in s, whatever the case (str.contains(sub, case=False) for a pattern
\* without regex operators)
icontains(s, sub) == contains(upper(s), upper(sub))

\* the element of a set of one element: the value of a step of a function,
\* to which the next step is applied
only(S) == CHOOSE v \in S : TRUE

\* the place of the first occurrence of word in s, 0 when there is none
find(s, word) ==
    LET P == {i \in 1..(Len(s) - Len(word) + 1) :
                 SubSeq(s, i, i + Len(word) - 1) = word}
    IN  IF P = {} THEN 0 ELSE CHOOSE i \in P : \A j \in P : i <= j

\* s.replace(word, ""): every occurrence of word is taken out, left to right
RECURSIVE remove_all(_, _)
remove_all(s, word) ==
    IF Len(word) = 0 \/ find(s, word) = 0 THEN s
    ELSE SubSeq(s, 1, find(s, word) - 1)
             \o remove_all(SubSeq(s, find(s, word) + Len(word), Len(s)), word)

\* the text before the first occurrence of c (s when c is absent)
before_char(s, c) ==
    IF find(s, c) = 0 THEN s ELSE SubSeq(s, 1, find(s, c) - 1)

\* the text after the first occurrence of c
after_char(s, c) == SubSeq(s, find(s, c) + 1, Len(s))

\* re.sub(r"\(.*?\)", "", s): every "(" up to the next ")" is taken out
RECURSIVE remove_parens(_)
remove_parens(s) ==
    IF find(s, "(") = 0 \/ find(after_char(s, "("), ")") = 0 THEN s
    ELSE before_char(s, "(") \o remove_parens(after_char(after_char(s, "("), ")"))

\* re.sub(r"\d+", "", s): the two halves of the text, without their digits
RECURSIVE remove_digits(_)
remove_digits(s) ==
    IF Len(s) = 0 THEN ""
    ELSE IF Len(s) = 1 THEN (IF is_digit(s) THEN "" ELSE s)
    ELSE remove_digits(SubSeq(s, 1, Len(s) \div 2))
             \o remove_digits(SubSeq(s, Len(s) \div 2 + 1, Len(s)))

\* re.sub(r"[^\w\s]", "", s): letters, digits, "_" and blanks are kept
RECURSIVE remove_punctuation(_)
remove_punctuation(s) ==
    IF Len(s) = 0 THEN ""
    ELSE IF Len(s) = 1
         THEN (IF is_alpha(s) \/ is_digit(s) \/ s = "_" \/ s = " " THEN s ELSE "")
    ELSE remove_punctuation(SubSeq(s, 1, Len(s) \div 2))
             \o remove_punctuation(SubSeq(s, Len(s) \div 2 + 1, Len(s)))

\* name = name.upper().replace(word, "") for each word of the list: the
\* next word is taken out of the text u that the word before has left
RECURSIVE remove_words(_, _)
remove_words(s, words) ==
    IF words = <<>> THEN s
    ELSE only({remove_words(u, Tail(words)) :
                  u \in {remove_all(upper(s), Head(words))}})

(* update_inventory.py *)

STATUS_AVAILABLE_NORMALIZED == {"AVAILABLE", "SERVICEABLE"}

\* clean_row_name: "E - Heavenly" gives "E", "Elevation 101" gives "101"
clean_row_name(row_str) ==
    LET s == upper(strip(row_str)) IN
    IF contains(s, " - ") THEN strip(before_char(s, "-"))
    ELSE IF contains(s, "ELEVATION") THEN strip(remove_all(s, "ELEVATION"))
    ELSE s

\* _normalize_status_series(...).isin(STATUS_AVAILABLE_NORMALIZED)
status_is_available(status) ==
    upper(strip(status)) \in STATUS_AVAILABLE_NORMALIZED

\* the records of the inventory whose garden contains garden_name
garden_data(df_inventory, garden_name) ==
    SelectSeq(df_inventory, LAMBDA r : icontains(r.Garden, garden_name))

\* calculate_percent_sold(df_inventory, garden_name)
calculate_percent_sold(df_inventory, garden_name) ==
    IF strip(garden_name) = "" THEN CellNone
    ELSE LET g == garden_data(df_inventory, garden_name)
             total_spaces == Len(g)
             avail_spaces == Len(SelectSeq(g, LAMBDA r : status_is_available(r.Status)))
         IN  IF total_spaces = 0 THEN CellNone
             ELSE CellFloat(Rat(total_spaces - avail_spaces, total_spaces))

\* a count that takes a row without records for a row without available
\* spaces
count_row_availability_zero(df_inventory, garden_name, row_name) ==
    IF strip(garden_name) = "" THEN CellStr("N/A")
    ELSE LET g == garden_data(df_inventory, garden_name)
             row_data == SelectSeq(g, LAMBDA r :
                             clean_row_name(r.Row) = clean_row_name(row_name))
         IN  IF g = <<>> THEN CellStr("N/A")
             ELSE CellInt(Len(SelectSeq(row_data,
                                        LAMBDA r : status_is_available(r.Status))))

\* count_row_availability(df_inventory, garden_name, row_name)
count_row_availability(df_inventory, garden_name, row_name) ==
    IF strip(garden_name) = "" THEN CellStr("N/A")
    ELSE LET g == garden_data(df_inventory, garden_name)
             target_row == clean_row_name(row_name)
             row_data == SelectSeq(g, LAMBDA r : clean_row_name(r.Row) = target_row)
         IN  IF g = <<>> THEN CellStr("N/A")
             ELSE IF Len(row_data) = 0 THEN CellNone
             ELSE CellInt(Len(SelectSeq(row_data,
                                        LAMBDA r : status_is_available(r.Status))))

(* Cells of the price book *)

\* str(n) for n >= 0
RECURSIVE str_int(_)
str_int(n) ==
    IF n < 10 THEN CharAt(DIGITS, n + 1)
    ELSE str_int(n \div 10) \o CharAt(DIGITS, (n % 10) + 1)

\* str(value).strip() of a name cell: a text, or "None" for an empty cell of
\* an openpyxl sheet
cell_text(cell) ==
    IF cell[1] = "str" THEN strip(cell[2])
    ELSE IF cell[1] = "int" THEN str_int(cell[2])
    ELSE "None"

\* val_str.replace(".", "", 1).isdigit()
is_number_text(val_str) ==
    LET t == IF IndexIn(".", val_str) = 0 THEN val_str
             ELSE before_char(val_str, ".") \o after_char(val_str, ".")
    IN  all_digits(t)

RECURSIVE pow10(_)
pow10(k) == IF k = 0 THEN 1 ELSE 10 * pow10(k - 1)

\* float(val_str) for a text of digits with at most one point
float_of(val_str) ==
    IF IndexIn(".", val_str) = 0 THEN Rat(int(val_str), 1)
    ELSE LET ip == before_char(val_str, ".")
             fp == after_char(val_str, ".")
         IN  Rat(int(ip) * pow10(Len(fp)) + int(fp), pow10(Len(fp)))

\* the "value cleaning" of surgical_update for a cell under the header
\* col_name: a number, or a text that reads as a number once "$", "," and "%"
\* are taken out, becomes a float in a price or percent column and an int
\* in a quantity column
clean_value(col_name, cell) ==
    LET has(words) == \E k \in 1..Len(words) : contains(col_name, words[k])
        val_str == IF cell[1] = "str"
                   THEN remove_all(remove_all(remove_all(strip(cell[2]), "$"), ","), "%")
                   ELSE ""
        numeric == cell[1] \in {"int", "float"}
                   \/ (cell[1] = "str" /\ is_number_text(val_str))
        number == IF cell[1] = "int" THEN Rat(cell[2], 1)
                  ELSE IF cell[1] = "float" THEN cell[2]
                  ELSE float_of(val_str)
    IN  IF cell = CellNone \/ ~numeric THEN cell
        ELSE IF has(<<"PRICE", "TOTAL", "COST", "PLAQUE">>) THEN CellFloat(number)
        ELSE IF has(<<"%", "SOLD", "SCARCITY">>) /\ ~contains(col_name, "QTY")
             THEN CellFloat(number)
        ELSE IF has(<<"QTY", "AVAIL", "STATUS">>)
             THEN CellInt(number[1] \div number[2])
        ELSE cell

\* the columns of the header whose upper-case name contains one of the words
columns_with(header, words) ==
    {c \in 1..Len(header) :
        \E k \in 1..Len(words) : contains(upper(header[c]), words[k])}

\* the first column of the set C, 0 when there is none
first_column(C) == IF C = {} THEN 0 ELSE CHOOSE c \in C : \A d \in C : c <= d

(* update_v32.py *)

\* clean_sheet_name_specific: the leading "NN_" and four words are taken out
clean_sheet_name_specific(sheet_name) ==
    LET name == IF leading_digits(sheet_name) # ""
                   /\ starts_with(SubSeq(sheet_name, Len(leading_digits(sheet_name)) + 1,
                                         Len(sheet_name)), "_")
                THEN SubSeq(sheet_name, Len(leading_digits(sheet_name)) + 2,
                            Len(sheet_name))
                ELSE sheet_name
    IN  strip(remove_all(remove_all(remove_all(remove_all(name,
              "Mausoleum"), "Bldg"), "Building"), "Garden"))

clean_sheet_name_generic(sheet_name) ==
    strip(remove_all(remove_all(clean_sheet_name_specific(sheet_name),
                                "Columbarium"), "Niches"))

\* clean_row_name of update_v32
v32_clean_row_name(row_str) ==
    LET s == upper(strip(row_str))
        t == replace_dashes(remove_all(remove_all(remove_all(remove_all(
                 remove_parens(s), "UNCOVERED"), "COVERED"), "ELEVATION"), "LEVEL"))
    IN  IF contains(s, "ALL LEVEL") THEN "ALL"
        ELSE strip(before_char(t, "-"))

\* super_clean_name: "" when fewer than two characters are left
super_clean_name(name) ==
    LET a == remove_digits(remove_parens(name))
        b == remove_words(a, <<"GARDEN", "SECTION", "LOC", "LOCATION", "BLOCK",
                               "OF", "THE">>)
        cleaned == upper(strip(remove_punctuation(b)))
    IN  IF Len(cleaned) < 2 THEN "" ELSE cleaned

\* garden_exists_in_inventory
garden_exists_in_inventory(df_inventory, garden_name, cm) ==
    /\ cm.Garden # None
    /\ \E target \in {super_clean_name(garden_name)} :
          /\ target # ""
          /\ \E i \in 1..Len(df_inventory) :
                \E inv_clean \in {super_clean_name(df_inventory[i].Garden)} :
                   icontains(inv_clean, target)

\* the number that re.search(r"Lot/Section\s+(\d+)", s, re.IGNORECASE)
\* captures, -1 without a match
lot_section(space_str) ==
    LET u == upper(space_str)
        tail(i) == SubSeq(u, i + 11, Len(u))
        P == {i \in 1..Len(u) :
                 /\ starts_with(SubSeq(u, i, Len(u)), "LOT/SECTION")
                 /\ starts_with(tail(i), " ")
                 /\ leading_digits(lstrip(tail(i))) # ""}
    IN  IF P = {} THEN -1
        ELSE int(leading_digits(lstrip(tail(CHOOSE i \in P : \A j \in P : i <= j))))

sidewalk_sections == {30, 40, 50, 80, 90, 100, 110, 120} \cup (60..64) \cup (70..74)

is_grace_sidewalk(space_str) == lot_section(space_str) \in sidewalk_sections

status_avail == <<"Available", "Serviceable", "For Sale", "Vacant">>

\* str.contains("|".join(status_avail), case=False): one of the four words
\* occurs somewhere in the status
v32_status_contains(status) ==
    \E k \in 1..Len(status_avail) : icontains(status, status_avail[k])

\* the parts of re.split(r"[-–]", s)
RECURSIVE split_dash(_)
split_dash(s) ==
    IF IndexIn("-", s) = 0 THEN <<s>>
    ELSE <<before_char(s, "-")>> \o split_dash(after_char(s, "-"))

\* calculate_percent_sold of update_v32: the records of the garden that are
\* counted, after the Grace and the sub-section filters
v32_garden_data(df_inventory, garden_name_full, cm) ==
    LET parts == split_dash(garden_name_full)
        target_garden == super_clean_name(parts[1])
        sub_section == IF Len(parts) > 1 THEN strip(parts[2]) ELSE ""
        g == SelectSeq(df_inventory, LAMBDA r :
                 icontains(super_clean_name(r.Garden), target_garden))
        full == upper(garden_name_full)
        sub_mask(r) == \/ icontains(r.Garden, sub_section)
                       \/ cm.Row # None /\ icontains(r.Row, sub_section)
    IN  IF target_garden = "GRACE" /\ cm.Row # None
        THEN IF contains(full, "SIDEWALK")
             THEN SelectSeq(g, LAMBDA r : is_grace_sidewalk(r.Row))
             ELSE IF contains(full, "STANDARD")
             THEN SelectSeq(g, LAMBDA r : ~is_grace_sidewalk(r.Row))
             ELSE g
        ELSE IF sub_section # "" /\ \E i \in 1..Len(g) : sub_mask(g[i])
             THEN SelectSeq(g, sub_mask)
             ELSE g

\* calculate_percent_sold of update_v32
v32_calculate_percent_sold(df_inventory, garden_name_full, cm) ==
    LET target_garden == super_clean_name(split_dash(garden_name_full)[1])
        full == upper(garden_name_full)
        garden_rows == v32_garden_data(df_inventory, garden_name_full, cm)
        total == Len(garden_rows)
        avail == Len(SelectSeq(garden_rows, LAMBDA r : v32_status_contains(r.Status)))
    IN  IF cm.Garden = None \/ cm.Status = None THEN CellNone
        ELSE IF target_garden = "" THEN CellNone
        ELSE IF ~\E i \in 1..Len(df_inventory) :
                    icontains(super_clean_name(df_inventory[i].Garden), target_garden)
             THEN CellNone
        ELSE IF /\ target_garden = "GRACE" /\ cm.Row # None
                /\ ~contains(full, "SIDEWALK") /\ ~contains(full, "STANDARD")
                /\ contains(full, "INFANT")
             THEN CellStr("N/A")
        ELSE IF total = 0 THEN CellNone
        ELSE CellFloat(Rat(total - avail, total))

\* line 217 of count_row_availability reads status_avail, a name that is
\* local to calculate_percent_sold: the call raises NameError there
NameError == <<"raise", "NameError: name 'status_avail' is not defined">>

\* count_row_availability of update_v32
v32_count_row_availability(df_inventory, garden_name, row_name, cm) ==
    LET target_garden == super_clean_name(garden_name)
        g == SelectSeq(df_inventory, LAMBDA r :
                 icontains(super_clean_name(r.Garden), target_garden))
        target_row == v32_clean_row_name(row_name)
        row_data == IF target_row = "ALL" THEN g
                    ELSE SelectSeq(g, LAMBDA r : target_row = v32_clean_row_name(r.Row))
    IN  IF cm.Garden = None \/ cm.Row = None \/ cm.Status = None
        THEN CellNone
        ELSE IF target_garden = "" THEN CellNone
        ELSE IF g = <<>> THEN CellStr("N/A")
        ELSE IF Len(row_data) = 0 THEN CellNone
        ELSE NameError

(* update_inventory.py: the loop over the sheets, for one sheet *)

\* Scenario A applies: a column with "%" and a column named GARDEN
scenario_a_applies(header) ==
    /\ columns_with(header, <<"%">>) # {}
    /\ \E c \in 1..Len(header) : upper(header[c]) = "GARDEN"

\* sold_col: the first column with "%" and "SOLD", else the first with "%"
sold_col(header) ==
    LET both == columns_with(header, <<"%">>) \cap columns_with(header, <<"SOLD">>)
    IN  IF both # {} THEN first_column(both)
        ELSE first_column(columns_with(header, <<"%">>))

\* str(row[garden_col]): an empty cell of the data frame is NaN
frame_text(cell) == IF cell = CellNone THEN "nan" ELSE cell_text(cell)

\* Scenario A for the row: the percent sold of its garden is written when
\* there is one
scenario_a_row(header, row, df_inventory) ==
    LET garden_col == first_column({c \in 1..Len(header) : upper(header[c]) = "GARDEN"})
        new == calculate_percent_sold(df_inventory, frame_text(row[garden_col]))
    IN  IF new # CellNone THEN [row EXCEPT ![sold_col(header)] = new] ELSE row

row_col_candidates(header) ==
    columns_with(header, <<"ROW", "LEVEL", "SECTION", "STATION">>)

qty_col_candidates(header) ==
    columns_with(header, <<"AVAIL", "QTY", "QUANTITY", "AVAILABLE">>)

scenario_b_applies(header) ==
    row_col_candidates(header) # {} /\ qty_col_candidates(header) # {}

\* clean_sheet: the text after the first "_", without three words
clean_sheet(sheet_name) ==
    LET s == IF contains(sheet_name, "_") THEN after_char(sheet_name, "_")
             ELSE sheet_name
    IN  strip(remove_all(remove_all(remove_all(s, "Mausoleum"), "Niches"),
                         "Columbarium"))

\* the quantity cell is written for a count: "Sold Out" for 0, the count
\* otherwise; None and "N/A" write nothing
write_count(header, row, qty_cols, cnt) ==
    IF cnt = CellNone \/ cnt = CellStr("N/A") THEN row
    ELSE [c \in 1..Len(row) |->
             IF c \in qty_cols
             THEN IF cnt[2] = 0 THEN CellStr("Sold Out") ELSE cnt
             ELSE row[c]]

(* update_v32.py: surgical_update, for one sheet *)

row_col_idx(header) ==
    first_column({c \in 1..Len(header) :
        upper(header[c]) \in {"ROW", "LEVEL", "SECTION", "CRYPT", "NICHE", "SPACE"}})

garden_col_idx(header) == first_column(columns_with(header, <<"GARDEN">>))

\* a row that repeats the header words is a secondary header
is_secondary(header, row) ==
    \E c \in columns_with(header, <<"ROW", "LEVEL", "SECTION", "PRODUCT">>) :
        upper(cell_text(row[c])) \in
            {"ROW", "LEVEL", "SECTION", "PRODUCT", "STATION", "NICHE #"}

\* the last column of the set C, 0 when there is none
last_column(C) == IF C = {} THEN 0 ELSE CHOOSE c \in C : \A d \in C : d <= c

\* row_name: the cell of row_col_idx, else the last cell under a header with
\* ROW, LEVEL, SECTION, STATION or PRODUCT; "" when there is none
v32_row_name(header, row) ==
    LET fallback == last_column(columns_with(header,
                        <<"ROW", "LEVEL", "SECTION", "STATION", "PRODUCT">>))
    IN  IF row_col_idx(header) # 0 /\ cell_text(row[row_col_idx(header)]) # ""
        THEN cell_text(row[row_col_idx(header)])
        ELSE IF fallback # 0 THEN cell_text(row[fallback]) ELSE ""

v32_garden_name(header, row) ==
    IF garden_col_idx(header) # 0 THEN cell_text(row[garden_col_idx(header)])
    ELSE ""

\* the garden searched for the rows of the sheet
final_search_name(sheet_name, df_inventory, cm) ==
    only({IF garden_exists_in_inventory(df_inventory, search_name_spec, cm)
          THEN search_name_spec
          ELSE clean_sheet_name_generic(sheet_name) :
             search_name_spec \in {clean_sheet_name_specific(sheet_name)}})

\* the formatting loop: the value cleaning of every cell of the row
format_row(header, row) ==
    [c \in 1..Len(row) |-> clean_value(upper(header[c]), row[c])]

\* the percent columns are written for a percent sold
write_percent(header, row, pct) ==
    IF pct = CellNone \/ pct = CellStr("N/A") THEN row
    ELSE [c \in 1..Len(row) |->
             IF /\ c \in columns_with(header, <<"%", "SOLD", "SCARCITY">>)
                /\ ~contains(upper(header[c]), "QTY")
             THEN pct ELSE row[c]]

(* The files of a run of an inventory-update script *)

InvRecord(g, r, s) == [Garden |-> g, Row |-> r, Status |-> s]

\* inventory files: none of the gardens of the price book, a mausoleum with
\* available and sold rows, a mausoleum without the rows of the price book,
\* and gardens whose statuses are written in several ways
Inventories ==
    { <<>>,
      <<InvRecord("Bell Tower Mausoleum", "E", "Available"),
        InvRecord("Bell Tower Mausoleum", "E", "Sold"),
        InvRecord("Bell Tower Mausoleum", "D", "Sold")>>,
      <<InvRecord("Bell Tower Mausoleum", "C", "Available")>>,
      <<InvRecord("Garden of Peace", "A", "Available")>>,
      <<InvRecord("Chapel Hill Garden", "A", "Unavailable"),
        InvRecord("Chapel Hill Garden", "A", "Vacant"),
        InvRecord("Chapel Hill Garden", "B", "Sold")>>,
      <<InvRecord("Chapel Hill Garden", "A", "Not Available"),
        InvRecord("Chapel Hill Garden", "B", " serviceable "),
        InvRecord("Chapel Hill Garden", "B", "Occupied")>>,
      <<InvRecord("Bell Tower Mausoleum", "E - 1", "Serviceable"),
        InvRecord("Bell Tower Mausoleum", "E - 2", "Available"),
        InvRecord("Chapel Hill Garden", "A", "Sold"),
        InvRecord("Chapel Hill Garden", "A", "For Sale")>> }

PriceBookSheet(t, h, rs) == [title |-> t, header |-> h, rows |-> rs]

\* sheets of the master price book: a mausoleum sheet with a quantity per
\* row, a ground-burial sheet with a percent sold per garden, and a sheet
\* with both
PriceBookSheets ==
    { PriceBookSheet("03_Bell Tower Mausoleum", <<"Row", "Price", "Available">>,
        << <<CellStr("E - Heavenly"), CellInt(5000), CellInt(3)>>,
           <<CellStr("D"), CellInt(4000), CellStr("Sold Out")>>,
           <<CellStr("Z"), CellStr("$3,000"), CellStr("3")>> >>),
      PriceBookSheet("03_Bell Tower Mausoleum", <<"Row", "Price", "Available">>,
        << <<CellStr("Z"), CellInt(3000), CellStr("Call")>>,
           <<CellNone, CellNone, CellInt(2)>>,
           <<CellStr("Row"), CellStr("Price"), CellStr("Available")>>,
           <<CellStr("D"), CellInt(4000), CellNone>> >>),
      PriceBookSheet("03_Bell Tower Mausoleum", <<"Row", "Price", "Available">>,
        << <<CellStr("Z"), CellInt(3000), CellFloat(Rat(5, 2))>>,
           <<CellStr("Y"), CellInt(3000), CellInt(0)>> >>),
      PriceBookSheet("01_Ground Burial", <<"Garden", "Price", "% Sold">>,
        << <<CellStr("Chapel Hill"), CellInt(3000), CellFloat(Rat(1, 2))>>,
           <<CellStr("Garden of Hope"), CellInt(2500), CellStr("40%")>>,
           <<CellNone, CellNone, CellNone>> >>),
      PriceBookSheet("05_Chapel Hill Garden", <<"Garden", "Section", "% Sold", "Qty">>,
        << <<CellStr("Chapel Hill"), CellStr("A"), CellFloat(Rat(1, 4)), CellInt(5)>>,
           <<CellStr("Chapel Hill"), CellStr("C"), CellNone, CellStr("2")>> >>) }

\* identify_columns(df_inv): every column found, or no column for the row
ColMaps ==
    { [Garden |-> "Section", Row |-> "Space", Status |-> "Status"],
      [Garden |-> "Section", Row |-> None, Status |-> "Status"] }

\* COL_GARDEN, COL_ROW and COL_STATUS of update_inventory.py
COL_MAP == [Garden |-> "Garden", Row |-> "Section", Status |-> "Status"]

InitInventory ==
    /\ pc = "loaded"
    /\ script \in {"update_inventory", "update_v32"}
    /\ df_inv \in Inventories
    /\ col_map \in IF script = "update_v32" THEN ColMaps ELSE {COL_MAP}
    /\ master \in PriceBookSheets
    /\ ws = master.rows
    /\ r_idx = 1
    /\ last_count = CellNone
    /\ new_pct = CellNone
    /\ saved = <<>>
    /\ IdlePricing /\ IdlePairs /\ IdleBootstrap /\ IdleBuckets /\ IdlePublish

\* update_inventory.py, Scenario A: the percent sold of every row of the sheet
update_inventory_scenario_a ==
    /\ script = "update_inventory"
    /\ pc = "loaded"
    /\ pc' = "scenario_a"
    /\ IF scenario_a_applies(master.header)
       THEN /\ ws' = [i \in 1..Len(ws) |->
                         scenario_a_row(master.header, ws[i], df_inv)]
            /\ new_pct' = calculate_percent_sold(df_inv,
                   frame_text(ws[Len(ws)][first_column(
                       {c \in 1..Len(master.header) :
                           upper(master.header[c]) = "GARDEN"})]))
       ELSE UNCHANGED <<ws, new_pct>>
    /\ UNCHANGED <<pricingVars, pairVars, bootstrapVars, bucketVars, publishVars,
                   script, df_inv, col_map, master, r_idx, last_count, saved>>

\* update_inventory.py, Scenario B: the count of one row of the sheet; a row
\* without a name is skipped
update_inventory_scenario_b_row ==
    /\ script = "update_inventory"
    /\ pc \in {"scenario_a", "scenario_b"}
    /\ scenario_b_applies(master.header)
    /\ r_idx <= Len(ws)
    /\ pc' = "scenario_b"
    /\ \E row_val \in {ws[r_idx][first_column(row_col_candidates(master.header))]},
          garden \in {clean_sheet(master.title)} :
          IF row_val = CellNone \/ cell_text(row_val) = ""
          THEN UNCHANGED <<ws, last_count>>
          ELSE \E cnt \in {count_row_availability(df_inv, garden, cell_text(row_val))} :
                  /\ last_count' = cnt
                  /\ ws' = [ws EXCEPT ![r_idx] =
                               write_count(master.header, ws[r_idx],
                                   {first_column(qty_col_candidates(master.header))},
                                   cnt)]
    /\ r_idx' = r_idx + 1
    /\ UNCHANGED <<pricingVars, pairVars, bootstrapVars, bucketVars, publishVars,
                   script, df_inv, col_map, master, new_pct, saved>>

\* update_inventory.py: df.to_excel(writer, ...) after the rows of the sheet
update_inventory_save ==
    /\ script = "update_inventory"
    /\ pc \in {"scenario_a", "scenario_b"}
    /\ ~scenario_b_applies(master.header) \/ r_idx > Len(ws)
    /\ pc' = "saved"
    /\ saved' = ws
    /\ UNCHANGED <<pricingVars, pairVars, bootstrapVars, bucketVars, publishVars,
                   script, df_inv, col_map, master, ws, r_idx, last_count, new_pct>>

\* update_v32, surgical_update: the formatting loop of one row
surgical_update_format_row ==
    /\ script = "update_v32"
    /\ pc \in {"loaded", "row_done"}
    /\ r_idx <= Len(ws)
    /\ pc' = "formatted"
    /\ ws' = [ws EXCEPT ![r_idx] =
                 IF is_secondary(master.header, ws[r_idx]) THEN ws[r_idx]
                 ELSE format_row(master.header, ws[r_idx])]
    /\ UNCHANGED <<pricingVars, pairVars, bootstrapVars, bucketVars, publishVars,
                   script, df_inv, col_map, master, r_idx, last_count, new_pct,
                   saved>>

\* update_v32, surgical_update: the data update of the row; the keys of the
\* row were read before the formatting loop, and a row without a garden or
\* without a name has no percent or no count
surgical_update_data_row ==
    /\ script = "update_v32"
    /\ pc = "formatted"
    /\ IF is_secondary(master.header, master.rows[r_idx])
       THEN /\ pc' = "row_done"
            /\ r_idx' = r_idx + 1
            /\ UNCHANGED <<ws, last_count, new_pct, raised>>
       ELSE \E row_name \in {v32_row_name(master.header, master.rows[r_idx])},
               garden_name \in {v32_garden_name(master.header, master.rows[r_idx])},
               search_name \in {final_search_name(master.title, df_inv, col_map)} :
            \E pct \in {IF garden_name = "" THEN CellNone
                        ELSE v32_calculate_percent_sold(df_inv, garden_name, col_map)},
               cnt \in {IF row_name \in {"", "None"} THEN CellNone
                        ELSE v32_count_row_availability(df_inv, search_name,
                                                        row_name, col_map)} :
               /\ new_pct' = pct
               /\ last_count' = cnt
               /\ IF cnt = NameError
                  THEN /\ pc' = "NameError"
                       /\ raised' = NameError[2]
                       /\ ws' = [ws EXCEPT ![r_idx] =
                                    write_percent(master.header, ws[r_idx], pct)]
                       /\ UNCHANGED r_idx
                  ELSE /\ pc' = "row_done"
                       /\ ws' = [ws EXCEPT ![r_idx] =
                                    write_count(master.header,
                                        write_percent(master.header, ws[r_idx], pct),
                                        columns_with(master.header,
                                                     <<"AVAIL", "QTY", "STATUS">>),
                                        cnt)]
                       /\ r_idx' = r_idx + 1
                       /\ UNCHANGED raised
    /\ UNCHANGED <<pricingVars, pairVars, bootstrapVars, bucketVars, headers,
                   out_wb, output_exists, output_xlsx, published, runs, cmd,
                   script, df_inv, col_map, master, saved>>

\* update_v32: wb.save(output_path) after the rows of the sheet
surgical_update_save ==
    /\ script = "update_v32"
    /\ pc \in {"loaded", "row_done"}
    /\ r_idx > Len(ws)
    /\ pc' = "saved"
    /\ saved' = ws
    /\ UNCHANGED <<pricingVars, pairVars, bootstrapVars, bucketVars, publishVars,
                   script, df_inv, col_map, master, ws, r_idx, last_count, new_pct>>

NextInventory ==
    \/ update_inventory_scenario_a
    \/ update_inventory_scenario_b_row
    \/ update_inventory_save
    \/ surgical_update_format_row
    \/ surgical_update_data_row
    \/ surgical_update_save

SpecInventory == InitInventory /\ [][NextInventory]_vars

----------------------------------------------------------------------------
(* The count of a row in update_v32 *)

\* the row of the sheet whose data update was made last
LastRow == IF pc = "NameError" THEN r_idx ELSE r_idx - 1

\* the data update of update_v32 has been made for a row that is no header
V32RowUpdated ==
    /\ script = "update_v32"
    /\ pc \in {"row_done", "NameError"}
    /\ ~is_secondary(master.header, master.rows[LastRow])

\* the inventory records that a garden and a row match
V32RowData(search_name, row_name) ==
    LET target_garden == super_clean_name(search_name)
        target_row == v32_clean_row_name(row_name)
    IN  SelectSeq(df_inv, LAMBDA r :
            /\ target_garden # ""
            /\ icontains(super_clean_name(r.Garden), target_garden)
            /\ target_row = "ALL" \/ target_row = v32_clean_row_name(r.Row))

\* C26: in update_v32, count_row_availability, called with every column
\* mapped and a garden and a row that both match at least one inventory
\* record, completes without raising and returns the number of the matched
\* records whose status is available, an integer between 0 and the number
\* of the matched records.  The code does not do this: the call raises
\* NameError at line 217.
C26_CountCompletes ==
    /\ V32RowUpdated
    /\ col_map.Garden # None /\ col_map.Row # None /\ col_map.Status # None
    => \A row_name \in {v32_row_name(master.header, master.rows[LastRow])},
          search_name \in {final_search_name(master.title, df_inv, col_map)} :
          \A row_data \in {V32RowData(search_name, row_name)} :
             row_name \notin {"", "None"} /\ row_data # <<>> =>
                /\ pc # "NameError"
                /\ last_count =
                       CellInt(Len(SelectSeq(row_data,
                                   LAMBDA r : v32_status_contains(r.Status))))
                /\ last_count[2] \in 0..Len(row_data)

----------------------------------------------------------------------------
(* The available statuses of calculate_percent_sold in update_v32 *)

\* the status is one of the four listed statuses, whatever the case
ListedStatus(status) ==
    \E k \in 1..Len(status_avail) : upper(strip(status)) = upper(status_avail[k])

\* C27: in update_v32, calculate_percent_sold counts a record as available
\* if and only if its status is one of Available, Serviceable, For Sale or
\* Vacant, whatever the case; every other status, such as "Unavailable" or
\* "Not Available", counts as sold, and the result is (total - available) /
\* total over the matched records, or None when no record matches.  The code
\* does not do this: a status that contains one of the four words counts as
\* available.
C27_AvailableIffListedStatus ==
    /\ V32RowUpdated
    /\ col_map.Garden # None /\ col_map.Status # None
    => \A garden_name \in {v32_garden_name(master.header, master.rows[LastRow])} :
          garden_name # "" =>
             \A matched \in {v32_garden_data(df_inv, garden_name, col_map)} :
                LET total == Len(matched)
                    available == Len(SelectSeq(matched,
                                     LAMBDA r : ListedStatus(r.Status)))
                IN  IF total = 0 THEN new_pct = CellNone
                    ELSE new_pct = CellFloat(Rat(total - available, total))

----------------------------------------------------------------------------
(* The quantity cell of a row without inventory records *)

\* the rows of the sheet whose count has been dealt with
CountedRows ==
    IF script = "update_inventory"
    THEN IF pc \in {"scenario_b", "saved"} /\ scenario_b_applies(master.header)
         THEN 1..(r_idx - 1) ELSE {}
    ELSE IF script = "update_v32"
    THEN {i \in 1..(r_idx - 1) : ~is_secondary(master.header, master.rows[i])}
    ELSE {}

\* the quantity columns that the count of a row is written to
QtyColumns ==
    IF script = "update_inventory"
    THEN {first_column(qty_col_candidates(master.header))}
    ELSE columns_with(master.header, <<"AVAIL", "QTY", "STATUS">>)

\* the inventory records of the garden of the sheet that have the name of
\* row i of the sheet
RowRecords(i) ==
    IF script = "update_inventory"
    THEN only({IF row_val = CellNone \/ cell_text(row_val) = "" \/ strip(garden) = ""
               THEN <<>>
               ELSE SelectSeq(garden_data(df_inv, garden), LAMBDA r :
                        clean_row_name(r.Row) = clean_row_name(cell_text(row_val))) :
                  row_val \in {master.rows[i][first_column(
                                   row_col_candidates(master.header))]},
                  garden \in {clean_sheet(master.title)}})
    ELSE only({IF \/ row_name \in {"", "None"}
                  \/ col_map.Garden = None \/ col_map.Row = None
                  \/ col_map.Status = None
               THEN <<>>
               ELSE V32RowData(search_name, row_name) :
                  row_name \in {v32_row_name(master.header, master.rows[i])},
                  search_name \in {final_search_name(master.title, df_inv, col_map)}})

\* the available ones among the records, as the script tells them
AvailableRecords(records) ==
    Len(SelectSeq(records, LAMBDA r :
            IF script = "update_inventory" THEN status_is_available(r.Status)
            ELSE v32_status_contains(r.Status)))

\* C25 as stated: a row whose name matches no inventory record of the garden,
\* or whose garden matches nothing, keeps the quantity cell it had in the
\* master price book; the cell of another row holds "Sold Out" for the count
\* 0 and the positive count otherwise.
C25_UnmatchedRowKeepsCell ==
    \A i \in CountedRows : \A q \in QtyColumns :
        \A records \in {RowRecords(i)} :
            IF records = <<>> THEN ws[i][q] = master.rows[i][q]
            ELSE ws[i][q] = IF AvailableRecords(records) = 0
                            THEN CellStr("Sold Out")
                            ELSE CellInt(AvailableRecords(records))

\* the cell of row i and column q as the script holds it before the count of
\* the row is written: update_v32 has cleaned the value in its formatting
\* loop
CellBeforeCount(i, q) ==
    IF script = "update_v32"
    THEN clean_value(upper(master.header[q]), master.rows[i][q])
    ELSE master.rows[i][q]

\* C25: a row whose name matches no inventory record of the garden (the
\* count is None), or whose garden matches nothing ("N/A"), keeps its
\* quantity cell as it was before the count: the cell of the master price
\* book, which update_v32 has rewritten as a number when it held a number or
\* the text of a number.  The count itself overwrites the cell only with
\* "Sold Out" when it is 0 and with the positive count otherwise.
C25_CountWritesMatchedRowsOnly ==
    \A i \in CountedRows : \A q \in QtyColumns :
        \A records \in {RowRecords(i)} :
            IF records = <<>> THEN ws[i][q] = CellBeforeCount(i, q)
            ELSE ws[i][q] = IF AvailableRecords(records) = 0
                            THEN CellStr("Sold Out")
                            ELSE CellInt(AvailableRecords(records))

\* update_inventory.py has saved a sheet in which a row without records has
\* kept the text of its cell, and a row whose records are all sold has got
\* "Sold Out" in an empty cell
C25_Witness ==
    /\ script = "update_inventory"
    /\ pc = "saved"
    /\ Len(saved) = 4
    /\ master.rows[1][3] = CellStr("Call")
    /\ RowRecords(1) = <<>>
    /\ saved[1][3] = CellStr("Call")
    /\ master.rows[4][3] = CellNone
    /\ Len(RowRecords(4)) = 1
    /\ saved[4][3] = CellStr("Sold Out")
    /\ last_count = CellInt(0)

====
